---- MODULE Spec2Model ----
(***************************************************************************)
(* Streaming chat client of dorian5656/trai (frontend/src/utils/stream.ts  *)
(* and frontend/src/stores/chat.ts): the event-stream decoders, the        *)
(* streaming session and the conversation store.                           *)
(*                                                                         *)
(* Text is a sequence of one-character strings, so that a transport chunk  *)
(* can end anywhere: inside the marker, inside a payload, between frames.  *)
(***************************************************************************)
EXTENDS Integers, Sequences, FiniteSets, TLC

(***************************************************************************)
(* JavaScript string operations used by the decoders (0-based indices, as  *)
(* in the source).                                                         *)
(***************************************************************************)

MinOf(S) == CHOOSE x \in S : \A y \in S : x <= y

MaxOf(S) == CHOOSE x \in S : \A y \in S : x >= y

\* The characters at 1-based positions m .. n that exist.
Mid(s, m, n) ==
  LET lo == IF m < 1 THEN 1 ELSE m
      hi == IF n > Len(s) THEN Len(s) ELSE n
  IN  IF lo > hi THEN <<>> ELSE SubSeq(s, lo, hi)

\* s.slice(a, b): the characters at 0-based positions a .. b-1.
Slice(s, a, b) == Mid(s, a + 1, b)

\* s.slice(a): the characters from 0-based position a to the end.
SliceFrom(s, a) == Mid(s, a + 1, Len(s))

\* s.startsWith(pat)
StartsWith(s, pat) == Len(s) >= Len(pat) /\ SubSeq(s, 1, Len(pat)) = pat

\* s.indexOf(pat, from): the first 0-based position >= from where pat occurs, or -1.
IndexOf(s, pat, from) ==
  LET hits == {i \in from..(Len(s) - Len(pat)) : SubSeq(s, i + 1, i + Len(pat)) = pat}
  IN  IF hits = {} THEN -1 ELSE MinOf(hits)

IsWs(c) == c \in {" ", "\n", "\r", "\t"}

\* s.trim()
Trim(s) ==
  LET keep == {i \in 1..Len(s) : ~IsWs(s[i])}
  IN  IF keep = {} THEN <<>> ELSE SubSeq(s, MinOf(keep), MaxOf(keep))

\* s.split('\n'): the pieces between newlines (always at least one piece).
RECURSIVE SplitLines(_)
SplitLines(s) ==
  LET nl == IndexOf(s, <<"\n">>, 0)
  IN  IF nl = -1 THEN <<s>>
      ELSE <<Slice(s, 0, nl)>> \o SplitLines(SliceFrom(s, nl + 1))

(***************************************************************************)
(* JSON.parse, for the JSON the model's streams carry: objects, arrays,    *)
(* strings without escape sequences, integers, true, false, null, with    *)
(* white space between tokens.  A value is [t, s, kids]: t its type, s the *)
(* text of a string or a number, kids the elements of an array or the     *)
(* [k, v] members of an object.                                            *)
(***************************************************************************)

Undefined == [t |-> "undefined", s |-> <<>>, kids |-> <<>>]

StrVal(chars) == [t |-> "string", s |-> chars, kids |-> <<>>]

ParseFail == [ok |-> FALSE, val |-> Undefined, next |-> 0]

ParseOk(v, n) == [ok |-> TRUE, val |-> v, next |-> n]

Digits == {"0", "1", "2", "3", "4", "5", "6", "7", "8", "9"}

\* The first 1-based position >= i that holds no white space (Len(s)+1 if none).
SkipWs(s, i) ==
  LET rest == {j \in i..Len(s) : ~IsWs(s[j])}
  IN  IF rest = {} THEN Len(s) + 1 ELSE MinOf(rest)

CharAt(s, i) == IF i >= 1 /\ i <= Len(s) THEN s[i] ELSE ""

\* A string token opening at s[i]: up to the next quote; a raw control
\* character or a backslash inside it is rejected.
ParseString(s, i) ==
  LET close == {j \in (i + 1)..Len(s) : s[j] = "\""}
  IN  IF CharAt(s, i) # "\"" \/ close = {} THEN ParseFail
      ELSE LET j == MinOf(close)
               body == SubSeq(s, i + 1, j - 1)
           IN  IF \E n \in 1..Len(body) : body[n] \in {"\n", "\r", "\t", "\\"}
               THEN ParseFail
               ELSE ParseOk(StrVal(body), j + 1)

\* An integer token at s[i]: an optional minus sign and digits, no leading zero.
ParseNumber(s, i) ==
  LET start == IF CharAt(s, i) = "-" THEN i + 1 ELSE i
      stop  == {j \in start..Len(s) : s[j] \notin Digits}
      end   == IF stop = {} THEN Len(s) + 1 ELSE MinOf(stop)
      run   == SubSeq(s, start, end - 1)
  IN  IF run = <<>> \/ (Len(run) > 1 /\ run[1] = "0") THEN ParseFail
      ELSE ParseOk([t |-> "number", s |-> SubSeq(s, i, end - 1), kids |-> <<>>], end)

ParseLiteral(s, i) ==
  IF Mid(s, i, i + 3) = <<"t", "r", "u", "e">>
  THEN ParseOk([t |-> "true", s |-> <<>>, kids |-> <<>>], i + 4)
  ELSE IF Mid(s, i, i + 4) = <<"f", "a", "l", "s", "e">>
  THEN ParseOk([t |-> "false", s |-> <<>>, kids |-> <<>>], i + 5)
  ELSE IF Mid(s, i, i + 3) = <<"n", "u", "l", "l">>
  THEN ParseOk([t |-> "null", s |-> <<>>, kids |-> <<>>], i + 4)
  ELSE ParseFail

RECURSIVE ParseValue(_, _)
RECURSIVE ParseElements(_, _, _)
RECURSIVE ParseMembers(_, _, _)

\* The elements of an array after "[", s[i] being the start of a value.
ParseElements(s, i, acc) ==
  LET v == ParseValue(s, i)
  IN  IF ~v.ok THEN ParseFail
      ELSE LET j == SkipWs(s, v.next)
           IN  IF CharAt(s, j) = ","
               THEN ParseElements(s, SkipWs(s, j + 1), Append(acc, v.val))
               ELSE IF CharAt(s, j) = "]"
               THEN ParseOk([t |-> "array", s |-> <<>>, kids |-> Append(acc, v.val)], j + 1)
               ELSE ParseFail

\* The members of an object after "{", s[i] being the quote of a key.
ParseMembers(s, i, acc) ==
  LET k == ParseString(s, i)
  IN  IF ~k.ok THEN ParseFail
      ELSE LET c == SkipWs(s, k.next)
           IN  IF CharAt(s, c) # ":" THEN ParseFail
               ELSE LET v == ParseValue(s, SkipWs(s, c + 1))
                    IN  IF ~v.ok THEN ParseFail
                        ELSE LET j   == SkipWs(s, v.next)
                                 mem == Append(acc, [k |-> k.val.s, v |-> v.val])
                             IN  IF CharAt(s, j) = ","
                                 THEN ParseMembers(s, SkipWs(s, j + 1), mem)
                                 ELSE IF CharAt(s, j) = "}"
                                 THEN ParseOk([t |-> "object", s |-> <<>>, kids |-> mem], j + 1)
                                 ELSE ParseFail

ParseValue(s, i) ==
  LET c == CharAt(s, i)
  IN  IF c = "{"
      THEN LET j == SkipWs(s, i + 1)
           IN  IF CharAt(s, j) = "}"
               THEN ParseOk([t |-> "object", s |-> <<>>, kids |-> <<>>], j + 1)
               ELSE ParseMembers(s, j, <<>>)
      ELSE IF c = "["
      THEN LET j == SkipWs(s, i + 1)
           IN  IF CharAt(s, j) = "]"
               THEN ParseOk([t |-> "array", s |-> <<>>, kids |-> <<>>], j + 1)
               ELSE ParseElements(s, j, <<>>)
      ELSE IF c = "\"" THEN ParseString(s, i)
      ELSE IF c = "-" \/ c \in Digits THEN ParseNumber(s, i)
      ELSE ParseLiteral(s, i)

\* JSON.parse(s): ok = FALSE stands for the SyntaxError it throws.
JSONParse(s) ==
  LET v == ParseValue(s, SkipWs(s, 1))
  IN  IF v.ok /\ SkipWs(s, v.next) = Len(s) + 1 THEN v ELSE ParseFail

\* v[key] for a parsed value (the last member of that name wins); reading a
\* property of null throws, which the callers test with IsNullish first.
Get(v, key) ==
  LET at == IF v.t = "object" THEN {n \in 1..Len(v.kids) : v.kids[n].k = key} ELSE {}
  IN  IF at = {} THEN Undefined ELSE v.kids[MaxOf(at)].v

\* v[0]
First(v) ==
  IF v.t = "array" THEN (IF v.kids = <<>> THEN Undefined ELSE v.kids[1])
  ELSE IF v.t = "string" THEN (IF v.s = <<>> THEN Undefined ELSE StrVal(<<v.s[1]>>))
  ELSE Get(v, <<"0">>)

IsNullish(v) == v.t \in {"undefined", "null"}

\* JavaScript truthiness.
Truthy(v) ==
  CASE v.t = "string" -> v.s # <<>>
    [] v.t = "number" -> \E n \in 1..Len(v.s) : v.s[n] \in (Digits \ {"0"})
    [] v.t \in {"true", "object", "array"} -> TRUE
    [] OTHER -> FALSE

\* a || b
OrElse(a, b) == IF Truthy(a) THEN a ELSE b

\* String(v), as string concatenation converts its operand.
RECURSIVE ToStr(_)
RECURSIVE JoinStr(_)
JoinStr(vs) ==
  IF vs = <<>> THEN <<>>
  ELSE (IF IsNullish(vs[1]) THEN <<>> ELSE ToStr(vs[1]))
       \o (IF Len(vs) > 1 THEN <<",">> \o JoinStr(Tail(vs)) ELSE <<>>)

ToStr(v) ==
  CASE v.t \in {"string", "number"} -> v.s
    [] v.t = "true" -> <<"t", "r", "u", "e">>
    [] v.t = "false" -> <<"f", "a", "l", "s", "e">>
    [] v.t = "null" -> <<"n", "u", "l", "l">>
    [] v.t = "object" ->
         <<"[", "o", "b", "j", "e", "c", "t", " ", "O", "b", "j", "e", "c", "t", "]">>
    [] v.t = "array" -> JoinStr(v.kids)
    [] OTHER -> <<"u", "n", "d", "e", "f", "i", "n", "e", "d">>

(***************************************************************************)
(* The literal texts of the source.                                        *)
(***************************************************************************)

\* A faulty Marker: 'data:', the space not asked for.
MarkerBare ==
  <<"d","a","t","a",":">>
\* Marker is the text 'data: '
Marker ==
  <<"d","a","t","a",":"," ">>
\* MarkerNoSpace is the text 'data:'
MarkerNoSpace ==
  <<"d","a","t","a",":">>
\* DoneSentinel is the text '[DONE]'
DoneSentinel ==
  <<"[","D","O","N","E","]">>
\* KeyEvent is the text 'event'
KeyEvent ==
  <<"e","v","e","n","t">>
\* KeyAnswer is the text 'answer'
KeyAnswer ==
  <<"a","n","s","w","e","r">>
\* KeyThought is the text 'thought'
KeyThought ==
  <<"t","h","o","u","g","h","t">>
\* KeyConversationId is the text 'conversation_id'
KeyConversationId ==
  <<"c","o","n","v","e","r","s","a","t","i","o","n","_","i","d">>
\* KeyMessage is the text 'message'
KeyMessage ==
  <<"m","e","s","s","a","g","e">>
\* KeyContent is the text 'content'
KeyContent ==
  <<"c","o","n","t","e","n","t">>
\* KeyChoices is the text 'choices'
KeyChoices ==
  <<"c","h","o","i","c","e","s">>
\* KeyDelta is the text 'delta'
KeyDelta ==
  <<"d","e","l","t","a">>
\* KeyReply is the text 'reply'
KeyReply ==
  <<"r","e","p","l","y">>
\* EvMessage is the text 'message'
EvMessage ==
  <<"m","e","s","s","a","g","e">>
\* EvAgentMessage is the text 'agent_message'
EvAgentMessage ==
  <<"a","g","e","n","t","_","m","e","s","s","a","g","e">>
\* EvAgentThought is the text 'agent_thought'
EvAgentThought ==
  <<"a","g","e","n","t","_","t","h","o","u","g","h","t">>
\* EvMessageEnd is the text 'message_end'
EvMessageEnd ==
  <<"m","e","s","s","a","g","e","_","e","n","d">>
\* EvError is the text 'error'
EvError ==
  <<"e","r","r","o","r">>
\* DifyErrorText is the text 'Dify Error'
DifyErrorText ==
  <<"D","i","f","y"," ","E","r","r","o","r">>
\* RequestFailedText is the text 'Request failed: '
RequestFailedText ==
  <<"R","e","q","u","e","s","t"," ","f","a","i","l","e","d",":"," ">>

(***************************************************************************)
(* The decoder state of one streaming call: the locals fullText,           *)
(* fullThought, buffer and done, the callbacks invoked so far (calls) and  *)
(* the payloads handed to the event handler so far (frames).               *)
(***************************************************************************)

Call(cb, text, cid, delta) ==
  [cb |-> cb, text |-> text, cid |-> cid, delta |-> delta, name |-> ""]

\* onError(err): the error's message and name.
ErrorCall(err) ==
  [cb |-> "onError", text |-> err.message, cid |-> <<>>, delta |-> <<>>, name |-> err.name]

NoError == [name |-> "", message |-> <<>>]

\* let done = false; let fullText = ''; let fullThought = ''; let buffer = '';
FreshDecoder(calls) ==
  [fullText |-> <<>>, fullThought |-> <<>>, buffer |-> <<>>, done |-> FALSE,
   calls |-> calls, frames |-> <<>>]

\* The conversation_id argument of onMessage, as its receiver reads it: the
\* receiver only tests it for truthiness and stores it, so a falsy value is
\* the empty text.
CidArg(v) == IF Truthy(v) THEN ToStr(v) ELSE <<>>

(***************************************************************************)
(* streamDifyChat: the handling of one frame, "try { const data =          *)
(* JSON.parse(jsonStr) ... } catch (e) {}".  Whatever is thrown inside     *)
(* (the SyntaxError of JSON.parse, the TypeError of reading null.event,    *)
(* the Error thrown for an error event) is caught by the empty catch.      *)
(***************************************************************************)

\* A faulty EmitMessage: fullText = answer, the accumulation lost.
EmitMessageReset(st, delta, cid) ==
  [st EXCEPT !.fullText = delta,
             !.calls = Append(@, Call("onMessage", delta, cid, delta))]

\* fullText += answer; onMessage(fullText, data.conversation_id)
EmitMessage(st, delta, cid) ==
  [st EXCEPT !.fullText = @ \o delta,
             !.calls = Append(@, Call("onMessage", st.fullText \o delta, cid, delta))]

\* A faulty EmitThought: the caller is handed the event's own thought, not
\* the accumulated one.
EmitThoughtRaw(st, delta) ==
  [st EXCEPT !.fullThought = @ \o delta,
             !.calls = Append(@, Call("onThought", delta, <<>>, delta))]

\* fullThought += thought; onThought(fullThought)
EmitThought(st, delta) ==
  [st EXCEPT !.fullThought = @ \o delta,
             !.calls = Append(@, Call("onThought", st.fullThought \o delta, <<>>, delta))]

\* A faulty DifyAnswer: onMessage is called for every message event, its
\* answer empty or not.
DifyAnswerAlways(st, answer, conversationId) ==
  EmitMessage(st, ToStr(answer), CidArg(conversationId))

\* if (answer) { ... }, answer being data.answer || ''
DifyAnswer(st, answer, conversationId) ==
  IF Truthy(answer) THEN EmitMessage(st, ToStr(answer), CidArg(conversationId)) ELSE st

\* A faulty DifyThought, which adds the thought to the answer's text too.
DifyThoughtIntoAnswer(st, thought) ==
  IF Truthy(thought)
  THEN [EmitThought(st, ToStr(thought)) EXCEPT !.fullText = @ \o ToStr(thought)]
  ELSE st

\* if (thought) { ... }, thought being data.thought || ''
DifyThought(st, thought) ==
  IF Truthy(thought) THEN EmitThought(st, ToStr(thought)) ELSE st

\* A faulty DifyData: an object without an event is read as the plain
\* variant reads it, its content appended to the answer.
DifyDataFallback(st, data, event, hasThought) ==
  IF event = StrVal(EvMessage) \/ event = StrVal(EvAgentMessage)
  THEN DifyAnswer(st, OrElse(Get(data, KeyAnswer), StrVal(<<>>)),
                  Get(data, KeyConversationId))
  ELSE IF event = StrVal(EvAgentThought) /\ hasThought
  THEN DifyThought(st, OrElse(Get(data, KeyThought), StrVal(<<>>)))
  ELSE IF event = Undefined /\ Truthy(Get(data, KeyContent))
  THEN EmitMessage(st, ToStr(Get(data, KeyContent)), <<>>)
  ELSE st

\* A faulty DifyData: message_end ends the session as [DONE] does.
DifyDataEndTerminal(st, data, event, hasThought) ==
  IF event = StrVal(EvMessage) \/ event = StrVal(EvAgentMessage)
  THEN DifyAnswer(st, OrElse(Get(data, KeyAnswer), StrVal(<<>>)),
                  Get(data, KeyConversationId))
  ELSE IF event = StrVal(EvAgentThought) /\ hasThought
  THEN DifyThought(st, OrElse(Get(data, KeyThought), StrVal(<<>>)))
  ELSE IF event = StrVal(EvMessageEnd) THEN [st EXCEPT !.done = TRUE]
  ELSE st

\* The if/else chain on data.event.
DifyData(st, data, event, hasThought) ==
  IF event = StrVal(EvMessage) \/ event = StrVal(EvAgentMessage)
  THEN DifyAnswer(st, OrElse(Get(data, KeyAnswer), StrVal(<<>>)),
                  Get(data, KeyConversationId))
  ELSE IF event = StrVal(EvAgentThought) /\ hasThought
  THEN DifyThought(st, OrElse(Get(data, KeyThought), StrVal(<<>>)))
  ELSE IF event = StrVal(EvMessageEnd) THEN st
  ELSE IF event = StrVal(EvError)
  THEN st  \* throw new Error(data.message || 'Dify Error'): caught by catch (e) {}
  ELSE st

\* A faulty DifyParsed: a payload JSON.parse rejects is appended as text, as
\* the catch block of streamChat does.
DifyParsedRaw(st, jsonStr, p, hasThought) ==
  IF ~p.ok \/ p.val.t = "null" THEN EmitMessage(st, jsonStr, <<>>)
  ELSE DifyData(st, p.val, Get(p.val, KeyEvent), hasThought)

\* p is what JSON.parse(jsonStr) gave: a SyntaxError, or null (reading
\* null.event throws a TypeError), both caught by catch (e) {}; or data.
DifyParsed(st, jsonStr, p, hasThought) ==
  IF ~p.ok \/ p.val.t = "null" THEN st
  ELSE DifyData(st, p.val, Get(p.val, KeyEvent), hasThought)

DifyEvent(st, jsonStr, hasThought) ==
  DifyParsed(st, jsonStr, JSONParse(jsonStr), hasThought)

\* A faulty DifyPayload: onDone() is called where [DONE] is met, and again
\* after the loop.
DifyPayloadDoneTwice(st, jsonStr, hasThought) ==
  IF jsonStr = DoneSentinel
  THEN [st EXCEPT !.frames = Append(@, jsonStr), !.done = TRUE,
                  !.calls = Append(@, Call("onDone", <<>>, <<>>, <<>>))]
  ELSE DifyEvent([st EXCEPT !.frames = Append(@, jsonStr)], jsonStr, hasThought)

\* The payload of a frame: [DONE] sets done (and leaves the scan).
DifyPayload(st, jsonStr, hasThought) ==
  IF jsonStr = DoneSentinel
  THEN [st EXCEPT !.frames = Append(@, jsonStr), !.done = TRUE]
  ELSE DifyEvent([st EXCEPT !.frames = Append(@, jsonStr)], jsonStr, hasThought)

\* dataStr = line.trim(); if (dataStr.startsWith('data: ')) { jsonStr = dataStr.slice(6) ...
DifyTrimmed(st, dataStr, hasThought) ==
  IF StartsWith(dataStr, Marker)
  THEN DifyPayload(st, SliceFrom(dataStr, Len(Marker)), hasThought)
  ELSE st

\* A faulty DifyLine: the line is not trimmed, what lies between the
\* payload and the next marker stays on the payload.
DifyLineNoTrim(st, line, hasThought) == DifyTrimmed(st, line, hasThought)

\* One extracted line of streamDifyChat.
DifyLine(st, line, hasThought) == DifyTrimmed(st, Trim(line), hasThought)

(***************************************************************************)
(* The inner loop "while (dataIndex !== -1)" of streamDifyChat.  eos is    *)
(* the done flag as the read set it; st.done is set by [DONE] only.        *)
(***************************************************************************)
RECURSIVE DifyScan(_, _, _, _)
RECURSIVE DifyFrame(_, _, _, _, _)
RECURSIVE DifyAfter(_, _, _, _)

\* A faulty DifyAfter: [DONE] does not leave the scan, the frames behind it
\* in the buffer are handled too.
DifyAfterNoBreak(after, more, eos, hasThought) ==
  DifyScan(after, IF more THEN IndexOf(after.buffer, Marker, 0) ELSE -1, eos, hasThought)

\* A faulty DifyAfter: the scan stops after one line, the frames behind it
\* in the buffer wait for the next chunk.
DifyAfterOneFrame(after, more, eos, hasThought) == after

\* After a line was handled: break on [DONE]; else look for the next marker
\* (more: a next marker had been found) or leave the loop.
DifyAfter(after, more, eos, hasThought) ==
  IF after.done THEN after
  ELSE DifyScan(after, IF more THEN IndexOf(after.buffer, Marker, 0) ELSE -1,
                eos, hasThought)

\* A faulty DifyFrame: without a next marker the frame is taken at once,
\* complete or not, instead of waiting for the next chunk.
DifyFrameEager(st, dataIndex, nextDataIndex, eos, hasThought) ==
  IF nextDataIndex # -1
  THEN DifyAfter(DifyLine([st EXCEPT !.buffer = SliceFrom(@, nextDataIndex)],
                          Slice(st.buffer, dataIndex, nextDataIndex), hasThought),
                 TRUE, eos, hasThought)
  ELSE DifyAfter(DifyLine([st EXCEPT !.buffer = <<>>],
                          SliceFrom(st.buffer, dataIndex), hasThought),
                 FALSE, eos, hasThought)

\* A faulty DifyFrame: the frame no marker follows is never taken, not even
\* at the end of the stream.
DifyFrameNoFlush(st, dataIndex, nextDataIndex, eos, hasThought) ==
  IF nextDataIndex # -1
  THEN DifyAfter(DifyLine([st EXCEPT !.buffer = SliceFrom(@, nextDataIndex)],
                          Slice(st.buffer, dataIndex, nextDataIndex), hasThought),
                 TRUE, eos, hasThought)
  ELSE st

\* The frame at dataIndex, nextDataIndex being the place of the next marker:
\* cut at the next marker; without one, taken whole at the end of the stream
\* and left in the buffer before.
DifyFrame(st, dataIndex, nextDataIndex, eos, hasThought) ==
  IF nextDataIndex # -1
  THEN DifyAfter(DifyLine([st EXCEPT !.buffer = SliceFrom(@, nextDataIndex)],
                          Slice(st.buffer, dataIndex, nextDataIndex), hasThought),
                 TRUE, eos, hasThought)
  ELSE IF eos
  THEN DifyAfter(DifyLine([st EXCEPT !.buffer = <<>>],
                          SliceFrom(st.buffer, dataIndex), hasThought),
                 FALSE, eos, hasThought)
  ELSE st

DifyScan(st, dataIndex, eos, hasThought) ==
  IF dataIndex = -1 THEN st
  ELSE DifyFrame(st, dataIndex, IndexOf(st.buffer, Marker, dataIndex + Len(Marker)),
                 eos, hasThought)

\* The scan of the buffer once the chunk was appended to it.
DifyFed(fed, eos, hasThought) ==
  DifyScan(fed, IndexOf(fed.buffer, Marker, 0), eos, hasThought)

\* One pass of streamDifyChat's "while (!done)" body after reader.read()
\* returned chunk (eos: the read reported done).
DifyChunk(st, chunk, eos, hasThought) ==
  [DifyFed([st EXCEPT !.buffer = @ \o chunk], eos, hasThought) EXCEPT !.done = @ \/ eos]

(***************************************************************************)
(* streamChat: the line-splitting decoder of the plain variant.            *)
(***************************************************************************)

\* v?.[key]
OptGet(v, key) == IF IsNullish(v) THEN Undefined ELSE Get(v, key)

\* v?.[0]
OptFirst(v) == IF IsNullish(v) THEN Undefined ELSE First(v)

\* data.choices?.[0]?.delta?.content
ChoiceContent(data) ==
  OptGet(OptGet(OptFirst(Get(data, KeyChoices)), KeyDelta), KeyContent)

\* if (content) { fullText += content; onMessage(fullText) }
PlainContent(st, content) ==
  IF Truthy(content) THEN EmitMessage(st, ToStr(content), <<>>) ELSE st

\* The try/catch of streamChat for one payload, p being what JSON.parse gave:
\* a payload it rejects, or one that parses to null (reading null.choices
\* throws), is appended as text by the catch block.
ChatParsed(st, dataStr, p) ==
  IF ~p.ok \/ p.val.t = "null"
  THEN EmitMessage(st, dataStr, <<>>)
  ELSE PlainContent(st, OrElse(OrElse(ChoiceContent(p.val), Get(p.val, KeyContent)),
                               StrVal(<<>>)))

ChatEvent(st, dataStr) == ChatParsed(st, dataStr, JSONParse(dataStr))

\* "for (const line of lines)" of streamChat, with its break on [DONE].
RECURSIVE ChatLines(_, _)
RECURSIVE ChatPayload(_, _, _)

ChatPayload(st, dataStr, rest) ==
  IF dataStr = DoneSentinel
  THEN [st EXCEPT !.frames = Append(@, dataStr), !.done = TRUE]
  ELSE ChatLines(ChatEvent([st EXCEPT !.frames = Append(@, dataStr)], dataStr), rest)

ChatLines(st, lines) ==
  IF lines = <<>> THEN st
  ELSE IF Trim(Head(lines)) = <<>> THEN ChatLines(st, Tail(lines))
  ELSE IF StartsWith(Head(lines), Marker)
  THEN ChatPayload(st, SliceFrom(Head(lines), Len(Marker)), Tail(lines))
  ELSE ChatLines(st, Tail(lines))

\* lines = buffer.split('\n'); buffer = lines.pop() || ''; then the loop
ChatSplit(st, lines, eos) ==
  ChatLines([st EXCEPT !.buffer = lines[Len(lines)], !.done = eos],
            SubSeq(lines, 1, Len(lines) - 1))

\* One pass of streamChat's "while (!done)" body.
ChatChunk(st, chunk, eos) == ChatSplit(st, SplitLines(st.buffer \o chunk), eos)

(***************************************************************************)
(* streamImageChat: the line-splitting decoder that also accepts "data:"   *)
(* without a space and takes a payload that does not look like a JSON      *)
(* object as text.                                                         *)
(***************************************************************************)

\* content for a payload that starts with "{", p being what JSON.parse gave
ImageParsed(dataStr, p) ==
  IF p.ok
  THEN OrElse(OrElse(OrElse(Get(p.val, KeyReply), Get(p.val, KeyContent)),
                     ChoiceContent(p.val)), StrVal(<<>>))
  ELSE StrVal(dataStr)

ImageEvent(st, dataStr) ==
  IF StartsWith(Trim(dataStr), <<"{">>)
  THEN PlainContent(st, ImageParsed(dataStr, JSONParse(dataStr)))
  ELSE PlainContent(st, StrVal(dataStr))

RECURSIVE ImageLines(_, _)
RECURSIVE ImagePayload(_, _, _)

ImagePayload(st, dataStr, rest) ==
  IF dataStr = DoneSentinel
  THEN [st EXCEPT !.frames = Append(@, dataStr), !.done = TRUE]
  ELSE ImageLines(ImageEvent([st EXCEPT !.frames = Append(@, dataStr)], dataStr), rest)

ImageLines(st, lines) ==
  IF lines = <<>> THEN st
  ELSE IF Trim(Head(lines)) = <<>> THEN ImageLines(st, Tail(lines))
  ELSE IF StartsWith(Head(lines), Marker)
  THEN ImagePayload(st, SliceFrom(Head(lines), Len(Marker)), Tail(lines))
  ELSE IF StartsWith(Head(lines), MarkerNoSpace)
  THEN ImagePayload(st, SliceFrom(Head(lines), Len(MarkerNoSpace)), Tail(lines))
  ELSE ImageLines(st, Tail(lines))

ImageSplit(st, lines, eos) ==
  ImageLines([st EXCEPT !.buffer = lines[Len(lines)], !.done = eos],
             SubSeq(lines, 1, Len(lines) - 1))

ImageChunk(st, chunk, eos) == ImageSplit(st, SplitLines(st.buffer \o chunk), eos)

\* The decoder of each streaming function.
Decode(v, st, chunk, eos, hasThought) ==
  CASE v = "dify"  -> DifyChunk(st, chunk, eos, hasThought)
    [] v = "chat"  -> ChatChunk(st, chunk, eos)
    [] v = "image" -> ImageChunk(st, chunk, eos)

(***************************************************************************)
(* The streams the server may send (the wire text of one response).        *)
(***************************************************************************)

\* WireA is the text 'data: {"event":"message","answer":"Hel","conversation_id":"c1"}\n\ndata: {"event":"message","answer":"lo","conversation_id":"c1"}\n\ndata: [DONE]\n\ndata: {"event":"message","answer":"X"}\n\ndata: {}\n\n'
WireA ==
  <<"d","a","t","a",":"," ","{","\"","e","v","e","n","t","\"",":","\"","m","e","s","s","a","g",
    "e","\"",",","\"","a","n","s","w","e","r","\"",":","\"","H","e","l","\"",",","\"","c","o",
    "n","v","e","r","s","a","t","i","o","n","_","i","d","\"",":","\"","c","1","\"","}","\n",
    "\n","d","a","t","a",":"," ","{","\"","e","v","e","n","t","\"",":","\"","m","e","s","s","a",
    "g","e","\"",",","\"","a","n","s","w","e","r","\"",":","\"","l","o","\"",",","\"","c","o",
    "n","v","e","r","s","a","t","i","o","n","_","i","d","\"",":","\"","c","1","\"","}","\n",
    "\n","d","a","t","a",":"," ","[","D","O","N","E","]","\n","\n","d","a","t","a",":"," ","{",
    "\"","e","v","e","n","t","\"",":","\"","m","e","s","s","a","g","e","\"",",","\"","a","n",
    "s","w","e","r","\"",":","\"","X","\"","}","\n","\n","d","a","t","a",":"," ","{","}","\n",
    "\n">>
\* WireErr is the text 'data: {"event":"message","answer":"Hi"}\n\ndata: {"event":"error","message":"quota exceeded"}\n\ndata: {"event":"agent_message","answer":"yo","conversation_id":"c1"}'
WireErr ==
  <<"d","a","t","a",":"," ","{","\"","e","v","e","n","t","\"",":","\"","m","e","s","s","a","g",
    "e","\"",",","\"","a","n","s","w","e","r","\"",":","\"","H","i","\"","}","\n","\n","d","a",
    "t","a",":"," ","{","\"","e","v","e","n","t","\"",":","\"","e","r","r","o","r","\"",",",
    "\"","m","e","s","s","a","g","e","\"",":","\"","q","u","o","t","a"," ","e","x","c","e","e",
    "d","e","d","\"","}","\n","\n","d","a","t","a",":"," ","{","\"","e","v","e","n","t","\"",
    ":","\"","a","g","e","n","t","_","m","e","s","s","a","g","e","\"",",","\"","a","n","s","w",
    "e","r","\"",":","\"","y","o","\"",",","\"","c","o","n","v","e","r","s","a","t","i","o","n",
    "_","i","d","\"",":","\"","c","1","\"","}">>
\* WireBad is the text 'data: {"event":"message","answer":"a"}\ndata: {oops\ndata: {"event":"message","answer":"b"}\n'
WireBad ==
  <<"d","a","t","a",":"," ","{","\"","e","v","e","n","t","\"",":","\"","m","e","s","s","a","g",
    "e","\"",",","\"","a","n","s","w","e","r","\"",":","\"","a","\"","}","\n","d","a","t","a",
    ":"," ","{","o","o","p","s","\n","d","a","t","a",":"," ","{","\"","e","v","e","n","t","\"",
    ":","\"","m","e","s","s","a","g","e","\"",",","\"","a","n","s","w","e","r","\"",":","\"",
    "b","\"","}","\n">>
\* WireThought is the text 'data: {"event":"agent_thought","thought":"th"}\n\ndata: {"event":"agent_message","answer":"ok"}\n\ndata: {"event":"message_end"}\n\ndata: {"event":"agent_thought","thought":"t2"}\n\n'
WireThought ==
  <<"d","a","t","a",":"," ","{","\"","e","v","e","n","t","\"",":","\"","a","g","e","n","t","_",
    "t","h","o","u","g","h","t","\"",",","\"","t","h","o","u","g","h","t","\"",":","\"","t","h",
    "\"","}","\n","\n","d","a","t","a",":"," ","{","\"","e","v","e","n","t","\"",":","\"","a",
    "g","e","n","t","_","m","e","s","s","a","g","e","\"",",","\"","a","n","s","w","e","r","\"",
    ":","\"","o","k","\"","}","\n","\n","d","a","t","a",":"," ","{","\"","e","v","e","n","t",
    "\"",":","\"","m","e","s","s","a","g","e","_","e","n","d","\"","}","\n","\n","d","a","t",
    "a",":"," ","{","\"","e","v","e","n","t","\"",":","\"","a","g","e","n","t","_","t","h","o",
    "u","g","h","t","\"",",","\"","t","h","o","u","g","h","t","\"",":","\"","t","2","\"","}",
    "\n","\n">>
\* WirePlain is the text 'data: {"choices":[{"delta":{"content":"He"}}]}\ndata: {"content":"y"}\n\ndata: raw\ndata: [DONE]\n'
WirePlain ==
  <<"d","a","t","a",":"," ","{","\"","c","h","o","i","c","e","s","\"",":","[","{","\"","d","e",
    "l","t","a","\"",":","{","\"","c","o","n","t","e","n","t","\"",":","\"","H","e","\"","}",
    "}","]","}","\n","d","a","t","a",":"," ","{","\"","c","o","n","t","e","n","t","\"",":","\"",
    "y","\"","}","\n","\n","d","a","t","a",":"," ","r","a","w","\n","d","a","t","a",":"," ","[",
    "D","O","N","E","]","\n">>
\* WireImage is the text 'data:ab\ndata: {"reply":"cd"}\ndata: {"content":"e"}\ndata: tail'
WireImage ==
  <<"d","a","t","a",":","a","b","\n","d","a","t","a",":"," ","{","\"","r","e","p","l","y","\"",
    ":","\"","c","d","\"","}","\n","d","a","t","a",":"," ","{","\"","c","o","n","t","e","n","t",
    "\"",":","\"","e","\"","}","\n","d","a","t","a",":"," ","t","a","i","l">>
\* WireNoEvent is the text 'data: {"content":"x"}\ndata: {"choices":[{"delta":{"content":"y"}}]}\ndata: {"event":"message","answer":"z"}\n'
WireNoEvent ==
  <<"d","a","t","a",":"," ","{","\"","c","o","n","t","e","n","t","\"",":","\"","x","\"","}",
    "\n","d","a","t","a",":"," ","{","\"","c","h","o","i","c","e","s","\"",":","[","{","\"","d",
    "e","l","t","a","\"",":","{","\"","c","o","n","t","e","n","t","\"",":","\"","y","\"","}",
    "}","]","}","\n","d","a","t","a",":"," ","{","\"","e","v","e","n","t","\"",":","\"","m","e",
    "s","s","a","g","e","\"",",","\"","a","n","s","w","e","r","\"",":","\"","z","\"","}","\n">>
\* PayloadA is the text '{"event":"message","answer":"a"}\n'
PayloadA ==
  <<"{","\"","e","v","e","n","t","\"",":","\"","m","e","s","s","a","g","e","\"",",","\"","a",
    "n","s","w","e","r","\"",":","\"","a","\"","}","\n">>
\* WireNoSpace is two frames of PayloadA, each behind 'data:' without a space.
WireNoSpace == MarkerNoSpace \o PayloadA \o MarkerNoSpace \o PayloadA
\* WireSpaced is the same two frames, each behind 'data: '.
WireSpaced == Marker \o PayloadA \o Marker \o PayloadA
\* WireImageSpaced is WireImage with a space after the 'data:' of its first line.
WireImageSpaced == Marker \o SubSeq(WireImage, Len(MarkerNoSpace) + 1, Len(WireImage))
\* WireEmptyAnswer is the text 'data: {"event":"message","answer":"","conversation_id":"c1"}\n\ndata: {"event":"message_end"}\n\ndata: {"event":"agent_message"}\n\ndata: {"event":"message","answer":"a"}\n\n'
WireEmptyAnswer ==
  <<"d","a","t","a",":"," ","{","\"","e","v","e","n","t","\"",":","\"","m","e","s","s","a","g",
    "e","\"",",","\"","a","n","s","w","e","r","\"",":","\"","\"",",","\"","c","o","n","v","e",
    "r","s","a","t","i","o","n","_","i","d","\"",":","\"","c","1","\"","}","\n","\n","d","a",
    "t","a",":"," ","{","\"","e","v","e","n","t","\"",":","\"","m","e","s","s","a","g","e","_",
    "e","n","d","\"","}","\n","\n","d","a","t","a",":"," ","{","\"","e","v","e","n","t","\"",
    ":","\"","a","g","e","n","t","_","m","e","s","s","a","g","e","\"","}","\n","\n","d","a","t",
    "a",":"," ","{","\"","e","v","e","n","t","\"",":","\"","m","e","s","s","a","g","e","\"",",",
    "\"","a","n","s","w","e","r","\"",":","\"","a","\"","}","\n","\n">>
\* GapFrameA is the text 'data: {"event":"message","answer":"a","content":"a"}'
GapFrameA ==
  <<"d","a","t","a",":"," ","{","\"","e","v","e","n","t","\"",":","\"","m","e","s","s","a","g",
    "e","\"",",","\"","a","n","s","w","e","r","\"",":","\"","a","\"",",","\"","c","o","n","t",
    "e","n","t","\"",":","\"","a","\"","}">>
\* GapFrameB is the text 'data: {"event":"message","answer":"b","content":"b"}'
GapFrameB ==
  <<"d","a","t","a",":"," ","{","\"","e","v","e","n","t","\"",":","\"","m","e","s","s","a","g",
    "e","\"",",","\"","a","n","s","w","e","r","\"",":","\"","b","\"",",","\"","c","o","n","t",
    "e","n","t","\"",":","\"","b","\"","}">>
\* WireOrder is the text 'data: {"choices":[{"delta":{"content":"A"}}],"content":"B"}\ndata: {"choices":[{"delta":{"content":""}}],"content":"C"}\ndata: {"x":1}\ndata: null\n'
WireOrder ==
  <<"d","a","t","a",":"," ","{","\"","c","h","o","i","c","e","s","\"",":","[","{","\"","d","e",
    "l","t","a","\"",":","{","\"","c","o","n","t","e","n","t","\"",":","\"","A","\"","}","}",
    "]",",","\"","c","o","n","t","e","n","t","\"",":","\"","B","\"","}","\n","d","a","t","a",
    ":"," ","{","\"","c","h","o","i","c","e","s","\"",":","[","{","\"","d","e","l","t","a","\"",
    ":","{","\"","c","o","n","t","e","n","t","\"",":","\"","\"","}","}","]",",","\"","c","o",
    "n","t","e","n","t","\"",":","\"","C","\"","}","\n","d","a","t","a",":"," ","{","\"","x",
    "\"",":","1","}","\n","d","a","t","a",":"," ","n","u","l","l","\n">>
\* WireTrail is the text 'data: Hello \ndata: world\n'
WireTrail ==
  <<"d","a","t","a",":"," ","H","e","l","l","o"," ","\n","d","a","t","a",":"," ","w","o","r",
    "l","d","\n">>
\* WireGap is the two frames with a newline, an empty line and two spaces between them.
WireGap == GapFrameA \o <<"\n", "\n", " ", " ">> \o GapFrameB \o <<"\n">>
\* WireNoGap is the same two frames without the two spaces.
WireNoGap == GapFrameA \o <<"\n", "\n">> \o GapFrameB \o <<"\n">>

\* A Dify stream whose first answer contains the marker text.
\* WireInner is the text 'data: {"event":"message","answer":"see data: x"}\n\ndata: {"event":"message","answer":"!"}\n\n'
WireInner ==
  <<"d","a","t","a",":"," ","{","\"","e","v","e","n","t","\"",":","\"","m","e","s","s","a","g",
    "e","\"",",","\"","a","n","s","w","e","r","\"",":","\"","s","e","e"," ","d","a","t","a",":",
    " ","x","\"","}","\n","\n","d","a","t","a",":"," ","{","\"","e","v","e","n","t","\"",":",
    "\"","m","e","s","s","a","g","e","\"",",","\"","a","n","s","w","e","r","\"",":","\"","!",
    "\"","}","\n","\n">>

\* UserText is the text 'hi'
UserText ==
  <<"h","i">>
\* ConvC0 is the text 'c0'
ConvC0 ==
  <<"c","0">>
\* ConvC1 is the text 'c1'
ConvC1 ==
  <<"c","1">>
\* TempPrefix is the text 'temp-'
TempPrefix ==
  <<"t","e","m","p","-">>
\* FetchFailedText is the text 'Failed to fetch'
FetchFailedText ==
  <<"F","a","i","l","e","d"," ","t","o"," ","f","e","t","c","h">>
\* Status500 is the text '500'
Status500 ==
  <<"5","0","0">>
\* ErrBody is the text 'oops'
ErrBody ==
  <<"o","o","p","s">>

(***************************************************************************)
(* The chat store (stores/chat.ts).  A store value s is the record of its  *)
(* refs: sessions, currentSessionId, difyConversations, difySessionId,     *)
(* isSending, abortController.  null is the empty text <<>> (the source    *)
(* only tests these ids for truthiness and equality).  A session is        *)
(* [id, messages], a message [role, content], a Dify conversation          *)
(* [id, name, is_temp]; titles and timestamps, which are only displayed,   *)
(* are left out.                                                           *)
(***************************************************************************)

Null == <<>>

DigitChars == <<"0", "1", "2", "3", "4", "5", "6", "7", "8", "9">>

\* n.toString() for n >= 0
RECURSIVE NumStr(_)
NumStr(n) ==
  IF n < 10 THEN <<DigitChars[n + 1]>>
  ELSE NumStr(n \div 10) \o <<DigitChars[(n % 10) + 1]>>

\* The 1-based position of the first session with that id, 0 if none
\* (sessions.value.find(s => s.id === id)).
FindSession(s, id) ==
  LET at == {n \in 1..Len(s.sessions) : s.sessions[n].id = id}
  IN  IF at = {} THEN 0 ELSE MinOf(at)

\* The 1-based position of the first Dify conversation with that id, 0 if none.
FindConversation(s, id) ==
  LET at == {n \in 1..Len(s.difyConversations) : s.difyConversations[n].id = id}
  IN  IF at = {} THEN 0 ELSE MinOf(at)

\* createSession(title, fixedId): fixedId || Date.now().toString()
CreateSession(s, fixedId, now) ==
  LET id == IF fixedId # Null THEN fixedId ELSE NumStr(now)
  IN  [s EXCEPT !.sessions = <<[id |-> id, messages |-> <<>>]>> \o @,
                !.currentSessionId = id,
                !.difySessionId = Null]

\* addMessage(role, content)
AddMessage(s, role, content, now) ==
  LET s1 == IF s.currentSessionId = Null THEN CreateSession(s, Null, now) ELSE s
      at == FindSession(s1, s1.currentSessionId)
  IN  IF at = 0 THEN s1
      ELSE [s1 EXCEPT !.sessions[at].messages =
                         Append(@, [role |-> role, content |-> content])]

\* The messages of the current session (the computed "messages").
Messages(s) ==
  LET at == IF s.currentSessionId = Null THEN 0 ELSE FindSession(s, s.currentSessionId)
  IN  IF at = 0 THEN <<>> ELSE s.sessions[at].messages

\* updateLastMessage(content)
UpdateLastMessage(s, content) ==
  LET at == IF s.currentSessionId = Null THEN 0 ELSE FindSession(s, s.currentSessionId)
      n  == Len(Messages(s))
  IN  IF n > 0 /\ Messages(s)[n].role = "assistant"
      THEN [s EXCEPT !.sessions[at].messages[n].content = content]
      ELSE s

\* clearSession()
ClearSession(s) ==
  LET at == IF s.currentSessionId = Null THEN 0 ELSE FindSession(s, s.currentSessionId)
  IN  IF at = 0 THEN s ELSE [s EXCEPT !.sessions[at].messages = <<>>]

\* clearAllConversations()
ClearAllConversations(s) ==
  [s EXCEPT !.sessions = <<>>, !.difyConversations = <<>>,
            !.currentSessionId = Null, !.difySessionId = Null]

\* setDifySessionId(id)
SetDifySessionId(s, id) == [s EXCEPT !.difySessionId = id]

\* The id addTempDifyConversation makes: `temp-${Date.now()}`
TempId(now) == TempPrefix \o NumStr(now)

\* A faulty addTempDifyConversation: push instead of unshift.
AddTempAtEnd(s, now) ==
  [s EXCEPT !.difyConversations =
              @ \o <<[id |-> TempId(now), name |-> "new", is_temp |-> TRUE]>>]

\* addTempDifyConversation(title)
AddTempDifyConversation(s, now) ==
  [s EXCEPT !.difyConversations =
              <<[id |-> TempId(now), name |-> "new", is_temp |-> TRUE]>> \o @]

\* A faulty updateTempDifyConversation: the placeholder is taken out of the
\* list and the real conversation pushed at its end.
UpdateTempAtEnd(s, tempId, realId) ==
  LET index == FindConversation(s, tempId)
  IN  IF index = 0 THEN s
      ELSE [s EXCEPT !.difyConversations =
                        SubSeq(@, 1, index - 1) \o SubSeq(@, index + 1, Len(@))
                        \o <<[@[index] EXCEPT !.id = realId, !.is_temp = FALSE]>>,
                     !.difySessionId = IF @ = tempId THEN realId ELSE @]

\* updateTempDifyConversation(tempId, realId)
UpdateTempDifyConversation(s, tempId, realId) ==
  LET index == FindConversation(s, tempId)
  IN  IF index = 0 THEN s
      ELSE [s EXCEPT !.difyConversations[index].id = realId,
                     !.difyConversations[index].is_temp = FALSE,
                     !.difySessionId = IF @ = tempId THEN realId ELSE @]

\* replaceMessagesFromDify(history, title, sessionId): history is the list
\* of [query, answer] the server returned.
RECURSIVE HistoryMessages(_)
HistoryMessages(history) ==
  IF history = <<>> THEN <<>>
  ELSE (IF history[1].query # <<>>
        THEN <<[role |-> "user", content |-> history[1].query]>> ELSE <<>>)
       \o (IF history[1].answer # <<>>
           THEN <<[role |-> "assistant", content |-> history[1].answer]>> ELSE <<>>)
       \o HistoryMessages(Tail(history))

ReplaceMessagesFromDify(s, history, sessionId, now) ==
  LET s1 == IF s.currentSessionId = Null THEN CreateSession(s, sessionId, now) ELSE s
      at == FindSession(s1, s1.currentSessionId)
  IN  IF at = 0 THEN s1
      ELSE [s1 EXCEPT !.sessions[at].messages = HistoryMessages(history)]

(***************************************************************************)
(* The callbacks sendMessage passes to streamDifyChat.  loc is the record  *)
(* of the call's locals initialConversationId and tempConversationId and   *)
(* of what the call has done: created counts the onConversationCreated     *)
(* calls, swapCalls the updateTempDifyConversation calls, swaps those that *)
(* found the placeholder.                                                  *)
(***************************************************************************)

\* A faulty onMessage callback: onConversationCreated is called without the
\* test of initialConversationId.
SendOnMessageAlways(s, loc, text, conversationId) ==
  LET s1 == UpdateLastMessage(s, text)
  IN  IF conversationId # Null /\ s1.difySessionId = Null
      THEN LET s2 == SetDifySessionId(s1, conversationId)
               swap == loc.tempConversationId # Null
           IN  <<IF swap
                 THEN UpdateTempDifyConversation(s2, loc.tempConversationId, conversationId)
                 ELSE s2,
                 [loc EXCEPT
                    !.swapCalls = IF swap THEN @ + 1 ELSE @,
                    !.swaps = IF swap /\ FindConversation(s2, loc.tempConversationId) # 0
                              THEN @ + 1 ELSE @,
                    !.created = @ + 1]>>
      ELSE <<s1, loc>>

\* (text, conversationId) => { updateLastMessage(text); if (conversationId
\* && !difySessionId.value) { ... } }: returns <<store, locals>>.
SendOnMessage(s, loc, text, conversationId) ==
  LET s1 == UpdateLastMessage(s, text)
  IN  IF conversationId # Null /\ s1.difySessionId = Null
      THEN LET s2 == SetDifySessionId(s1, conversationId)
               swap == loc.tempConversationId # Null
               s3 == IF swap
                     THEN UpdateTempDifyConversation(s2, loc.tempConversationId,
                                                     conversationId)
                     ELSE s2
               notify == loc.initialConversationId = Null
           IN  <<s3,
                 [loc EXCEPT
                    !.swapCalls = IF swap THEN @ + 1 ELSE @,
                    !.swaps = IF swap /\ FindConversation(s2, loc.tempConversationId) # 0
                              THEN @ + 1 ELSE @,
                    !.created = IF notify THEN @ + 1 ELSE @]>>
      ELSE <<s1, loc>>

\* A faulty onDone, which leaves the busy flag set.
SendOnDoneKeepsBusy(s) == s

\* () => { isSending.value = false }
SendOnDone(s) == [s EXCEPT !.isSending = FALSE]

\* (err) => { isSending.value = false; ...; updateLastMessage('❌ 请求失败，请重试。') }
SendOnError(s) == UpdateLastMessage([s EXCEPT !.isSending = FALSE], <<"request failed">>)

\* The callbacks of the image-recognition branch of sendMessage.
ImageOnError(s) == UpdateLastMessage([s EXCEPT !.isSending = FALSE], <<"recognition failed">>)

\* One callback of a streaming call, as its caller handles it: the Dify chat
\* and the image recognition of sendMessage write the store, the meeting
\* summary (MeetingRecorder.handleGenerateSummary) its own refs.
ApplyCall(variant, w, c) ==
  CASE variant = "dify" ->
         (CASE c.cb = "onMessage" ->
                 LET r == SendOnMessage(w.store, w.loc, c.text, c.cid)
                 IN  [w EXCEPT !.store = r[1], !.loc = r[2]]
            [] c.cb = "onDone"  -> [w EXCEPT !.store = SendOnDone(@)]
            [] c.cb = "onError" -> [w EXCEPT !.store = SendOnError(@)]
            [] OTHER -> w)
    [] variant = "image" ->
         (CASE c.cb = "onMessage" -> [w EXCEPT !.store = UpdateLastMessage(@, c.text)]
            [] c.cb = "onDone"  -> [w EXCEPT !.store = SendOnDone(@)]
            [] c.cb = "onError" -> [w EXCEPT !.store = ImageOnError(@)]
            [] OTHER -> w)
    [] variant = "chat" ->
         (CASE c.cb = "onMessage" -> [w EXCEPT !.summary.summaryText = c.text]
            [] c.cb \in {"onDone", "onError"} -> [w EXCEPT !.summary.isSummarizing = FALSE]
            [] OTHER -> w)

\* The callbacks cs, in the order the streaming call invoked them.
RECURSIVE ApplyCalls(_, _, _)
ApplyCalls(variant, w, cs) ==
  IF cs = <<>> THEN w
  ELSE ApplyCalls(variant, ApplyCall(variant, w, Head(cs)), Tail(cs))

(***************************************************************************)
(* The exits of a streaming call (streamDifyChat, streamChat,              *)
(* streamImageChat share them).                                            *)
(***************************************************************************)

\* A faulty LoopExit: the call returns without onDone().
LoopExitSilent(d) == d

\* After the read loop: onDone()
LoopExit(d) == [d EXCEPT !.calls = Append(@, Call("onDone", <<>>, <<>>, <<>>))]

\* A faulty CatchBlock: an AbortError is reported like any other error.
CatchBlockLoud(d, error) == [d EXCEPT !.calls = Append(@, ErrorCall(error))]

\* A faulty CatchBlock: every error is swallowed.
CatchBlockSwallow(d, error) == d

\* catch (error) { if (error.name === 'AbortError') {...} else { onError(error) } }
CatchBlock(d, error) ==
  IF error.name = "AbortError" THEN d
  ELSE [d EXCEPT !.calls = Append(@, ErrorCall(error))]

\* new Error(`Request failed: ${response.status} ${errText}`)
RequestFailed(status, errText) ==
  [name |-> "Error", message |-> RequestFailedText \o status \o <<" ">> \o errText]

\* What the platform throws: fetch and reader.read() reject with a TypeError
\* on a network failure and with an AbortError once the signal is aborted.
NetworkError == [name |-> "TypeError", message |-> FetchFailedText]

AbortError == [name |-> "AbortError", message |-> <<>>]

(***************************************************************************)
(* The state.                                                              *)
(*   pc       where the streaming call stands: "idle" (not called),        *)
(*            "fetch" (awaiting fetch), "text" (awaiting response.text()   *)
(*            of a failed response), "read" (awaiting reader.read()),      *)
(*            "ended" (returned)                                           *)
(*   variant  which function streams: "dify" (streamDifyChat, called by    *)
(*            sendMessage), "image" (streamImageChat, called by            *)
(*            sendMessage), "chat" (streamChat, called by                  *)
(*            MeetingRecorder.handleGenerateSummary)                       *)
(*   hasThought  whether the caller passed onThought                       *)
(*   aborted  controller.signal.aborted                                    *)
(*   wire, pos   the text of the response and how much of it was read      *)
(*   status   the status of a failed response (Null otherwise)             *)
(*   dec      the decoder state of the call                                *)
(*   thrown   the error that reached the call's catch block                *)
(*   store    the chat store                                               *)
(*   loc      the locals of sendMessage                                    *)
(*   summary  isSummarizing and summaryText of MeetingRecorder             *)
(*   clock    Date.now()                                                   *)
(*   page     the page around the store (useChatSession): isLoggedIn, the  *)
(*            conversation ids whose handleSwitchSession awaits its        *)
(*            messages, the number of loadConversations calls awaiting     *)
(*            the list                                                     *)
(*   recorder the streamChat call of MeetingRecorder.handleGenerateSummary *)
(*            when it runs beside the call of sendMessage, on the same     *)
(*            store: where it stands ("idle", "running", "ended") and      *)
(*            whether its own controller's signal is aborted               *)
(***************************************************************************)
VARIABLES pc, variant, hasThought, aborted, wire, pos, status, dec, thrown,
          store, loc, summary, clock, page, recorder

vars == <<pc, variant, hasThought, aborted, wire, pos, status, dec, thrown,
          store, loc, summary, clock, page, recorder>>

\* The largest transport chunk, in characters, besides "all the rest".
MaxChunk == 3

DifyWires ==
  {WireA, WireErr, WireBad, WireThought, WireNoSpace, WireNoEvent, WireEmptyAnswer, WireGap,
   WireInner}

ChatWires == {WirePlain, WireImage, WireGap, WireOrder, WireTrail}

ImageWires == {WirePlain, WireImage, WireGap}

\* The store of a page that was just opened.
FreshStore ==
  [sessions |-> <<>>, currentSessionId |-> Null, difyConversations |-> <<>>,
   difySessionId |-> Null, isSending |-> FALSE, abortController |-> "null"]

\* A conversation of the server's list (fetchDifyConversations).
ServerConversation(id) == [id |-> id, name |-> "old", is_temp |-> FALSE]

\* The messages of a conversation as the server returns them
\* (fetchConversationMessages).
ServerHistory == <<[query |-> UserText, answer |-> UserText]>>

\* The store once a chat was opened (handleNewChat at time 0), the list loaded
\* (loadConversations) and the conversation c0 selected (handleSwitchSession).
ContinuingStore ==
  [sessions |-> <<[id |-> NumStr(0), messages |-> HistoryMessages(ServerHistory)]>>,
   currentSessionId |-> NumStr(0),
   difyConversations |-> <<ServerConversation(ConvC0)>>,
   difySessionId |-> ConvC0, isSending |-> FALSE, abortController |-> "null"]

NoLocals ==
  [initialConversationId |-> Null, tempConversationId |-> Null,
   conversation_id |-> Null,
   created |-> 0, swapCalls |-> 0, swaps |-> 0]

Init ==
  /\ pc = "idle"
  /\ variant = "dify"
  /\ hasThought = FALSE
  /\ aborted = FALSE
  /\ wire = <<>>
  /\ pos = 0
  /\ status = Null
  /\ dec = FreshDecoder(<<>>)
  /\ thrown = NoError
  /\ store \in {FreshStore, ContinuingStore}
  /\ loc = NoLocals
  /\ summary = [isSummarizing |-> FALSE, summaryText |-> <<>>]
  /\ clock = 1
  /\ page \in {[loggedIn |-> b, switching |-> <<>>, loading |-> 0] :
                 b \in {x \in BOOLEAN : store = ContinuingStore => x}}
  /\ recorder = [pc |-> "idle", aborted |-> FALSE]

\* const controller = new AbortController(); chatStore.abortController =
\* controller; then fetch(...) is awaited.
BeginStream(v, w, th, s) ==
  /\ variant' = v
  /\ hasThought' = th
  /\ wire' = w
  /\ store' = [s EXCEPT !.abortController = "controller"]
  /\ pc' = "fetch"
  /\ clock' = clock + 1
  /\ UNCHANGED <<aborted, pos, status, dec, thrown, page, recorder>>

\* const initialConversationId = difySessionId.value; if
\* (!initialConversationId) tempConversationId = addTempDifyConversation();
\* then streamDifyChat is called with conversation_id: difySessionId.value
\* || undefined (addTempDifyConversation leaves difySessionId alone).
SendDify(s, w, th) ==
  /\ loc' = [NoLocals EXCEPT
               !.initialConversationId = s.difySessionId,
               !.tempConversationId =
                  IF s.difySessionId = Null THEN TempId(clock) ELSE Null,
               !.conversation_id = s.difySessionId]
  /\ BeginStream("dify", w, th,
                 IF s.difySessionId = Null THEN AddTempDifyConversation(s, clock) ELSE s)

\* chatStore.sendMessage(content) without a skill: the Dify chat.
SendMessage(w, th) ==
  /\ pc = "idle"
  /\ SendDify(AddMessage([AddMessage(store, "user", UserText, clock)
                            EXCEPT !.isSending = TRUE],
                         "assistant", <<>>, clock),
              w, th)
  /\ UNCHANGED summary

\* chatStore.sendMessage(content, [image], skill) with an uploaded image and
\* the image-recognition skill.
SendImage(w) ==
  /\ pc = "idle"
  /\ BeginStream("image", w, FALSE,
                 AddMessage([AddMessage(store, "user", UserText, clock)
                               EXCEPT !.isSending = TRUE],
                            "assistant", <<"analysing">>, clock))
  /\ UNCHANGED <<loc, summary>>

\* MeetingRecorder.handleGenerateSummary
GenerateSummary(w) ==
  /\ pc = "idle"
  /\ summary' = [isSummarizing |-> TRUE, summaryText |-> <<>>]
  /\ BeginStream("chat", w, FALSE, store)
  /\ UNCHANGED loc

\* What the callbacks did to their caller's state.
Delivered(w) ==
  /\ store' = w.store
  /\ loc' = w.loc
  /\ summary' = w.summary

\* The callbacks the call invoked since the last step (those d.calls has
\* beyond dec.calls) run in its caller, in order.
NewCalls(d) ==
  ApplyCalls(variant, [store |-> store, loc |-> loc, summary |-> summary],
             SubSeq(d.calls, Len(dec.calls) + 1, Len(d.calls)))

\* The call goes on with decoder state d.
Deliver(d) ==
  /\ dec' = d
  /\ \E w \in {NewCalls(d)} : Delivered(w)

\* finally { chatStore.abortController = null }
Finally(s) == [s EXCEPT !.abortController = "null"]

\* The call returns with decoder state d, through its finally block.
Return(d) ==
  /\ pc' = "ended"
  /\ dec' = d
  /\ \E w \in {NewCalls(d)} : Delivered([w EXCEPT !.store = Finally(@)])

\* A faulty Throw: the controller is released after the try statement, not
\* in a finally block, so a call that leaves through catch keeps it set.
ThrowKeepsController(error) ==
  /\ thrown' = error
  /\ pc' = "ended"
  /\ \E d \in {CatchBlock(dec, error)} :
       /\ dec' = d
       /\ \E w \in {NewCalls(d)} : Delivered(w)

\* The call leaves through its catch block with error, then finally.
Throw(error) ==
  /\ thrown' = error
  /\ \E d \in {CatchBlock(dec, error)} : Return(d)

\* fetch resolves with an ok response: the reader and the decoder's locals
\* are created.
FetchOk ==
  /\ pc = "fetch" /\ ~aborted
  /\ pc' = "read"
  /\ dec' = FreshDecoder(dec.calls)
  /\ UNCHANGED <<variant, hasThought, aborted, wire, pos, status, thrown,
                 store, loc, summary, clock, page, recorder>>

\* fetch resolves with a response that is not ok: response.text() is awaited.
FetchBadStatus(code) ==
  /\ pc = "fetch" /\ ~aborted
  /\ pc' = "text"
  /\ status' = code
  /\ UNCHANGED <<variant, hasThought, aborted, wire, pos, dec, thrown,
                 store, loc, summary, clock, page, recorder>>

\* fetch rejects (no connection).
FetchReject ==
  /\ pc = "fetch" /\ ~aborted
  /\ Throw(NetworkError)
  /\ UNCHANGED <<variant, hasThought, aborted, wire, pos, status, clock, page, recorder>>

\* response.text() resolves: throw new Error(`Request failed: ...`).
TextResolve(errText) ==
  /\ pc = "text" /\ ~aborted
  /\ Throw(RequestFailed(status, errText))
  /\ UNCHANGED <<variant, hasThought, aborted, wire, pos, status, clock, page, recorder>>

\* response.text() rejects.
TextReject ==
  /\ pc = "text" /\ ~aborted
  /\ Throw(NetworkError)
  /\ UNCHANGED <<variant, hasThought, aborted, wire, pos, status, clock, page, recorder>>

\* One pass of the read loop left the decoder in d: the loop goes on, or, d
\* being done, onDone is called and the call returns.
ReadPass(d) ==
  IF d.done
  THEN \E e \in {LoopExit(d)} : Return(e)
  ELSE /\ pc' = "read"
       /\ Deliver(d)

\* reader.read() resolves with the next k characters (fewer at the end of
\* the text): one pass of the read loop; [DONE] ends the loop, and the call.
ReadChunk(k) ==
  /\ pc = "read" /\ ~aborted
  /\ k <= Len(wire) - pos
  /\ \E d \in {Decode(variant, dec, SubSeq(wire, pos + 1, pos + k), FALSE, hasThought)} :
       ReadPass(d)
  /\ pos' = pos + k
  /\ UNCHANGED <<variant, hasThought, aborted, wire, status, thrown, clock, page, recorder>>

\* reader.read() resolves with done = true: the last pass of the loop, then
\* onDone.
ReadEnd ==
  /\ pc = "read" /\ ~aborted
  /\ pos = Len(wire)
  /\ \E d \in {Decode(variant, dec, <<>>, TRUE, hasThought)} : ReadPass(d)
  /\ UNCHANGED <<variant, hasThought, aborted, wire, pos, status, thrown, clock, page, recorder>>

\* reader.read() rejects (the connection broke).
ReadReject ==
  /\ pc = "read" /\ ~aborted
  /\ Throw(NetworkError)
  /\ UNCHANGED <<variant, hasThought, aborted, wire, pos, status, clock, page, recorder>>

\* chatStore.stopGenerating(): abortController.value.abort() aborts the
\* controller the store holds, whichever call made it.
StopGenerating ==
  /\ store.abortController # "null"
  /\ aborted' = (aborted \/ store.abortController = "controller")
  /\ recorder' = [recorder EXCEPT !.aborted = @ \/ store.abortController = "recorder"]
  /\ store' = [store EXCEPT !.isSending = FALSE]
  /\ UNCHANGED <<pc, variant, hasThought, wire, pos, status, dec, thrown,
                 loc, summary, clock, page>>

\* The awaited fetch, response.text() or reader.read() of an aborted call
\* rejects with an AbortError; nothing is read from an aborted response.
AbortWake ==
  /\ pc \in {"fetch", "text", "read"} /\ aborted
  /\ Throw(AbortError)
  /\ UNCHANGED <<variant, hasThought, aborted, wire, pos, status, clock, page, recorder>>

\* What the awaited generateImage or convertByExt leaves in the assistant
\* message: a result link, or the text of the failure.
ToolTexts == {<<"result">>, <<"failed">>}

\* chatStore.sendMessage with the image-recognition skill and no usable
\* image, or with the document-tool skill and no file: addMessage('user');
\* isSending = true; (document tool: addMessage('assistant', ...));
\* a warning; isSending = false; return.  Nothing is awaited.
SendEarlyReturn(skill) ==
  /\ pc = "idle"
  /\ \E s \in {[AddMessage(store, "user", UserText, clock) EXCEPT !.isSending = TRUE]} :
       store' = [(IF skill = "doc" THEN AddMessage(s, "assistant", <<"converting">>, clock)
                                   ELSE s)
                   EXCEPT !.isSending = FALSE]
  /\ variant' = skill
  /\ pc' = "ended"
  /\ clock' = clock + 1
  /\ UNCHANGED <<hasThought, aborted, wire, pos, status, dec, thrown, loc, summary,
                 page, recorder>>

\* chatStore.sendMessage with the image-generation skill, or with the
\* document-tool skill and a file: addMessage('user'); isSending = true;
\* addMessage('assistant', ...); then generateImage or convertByExt is
\* awaited.  These calls make no AbortController.
SendTool(skill) ==
  /\ pc = "idle"
  /\ store' = AddMessage([AddMessage(store, "user", UserText, clock)
                            EXCEPT !.isSending = TRUE],
                         "assistant", <<"working">>, clock)
  /\ variant' = skill
  /\ pc' = "tool"
  /\ clock' = clock + 1
  /\ UNCHANGED <<hasThought, aborted, wire, pos, status, dec, thrown, loc, summary,
                 page, recorder>>

\* The awaited generateImage or convertByExt settled: updateLastMessage
\* with the result (try) or the failure (catch); finally { isSending =
\* false }; return.
ToolSettle(text) ==
  /\ pc = "tool"
  /\ store' = [UpdateLastMessage(store, text) EXCEPT !.isSending = FALSE]
  /\ pc' = "ended"
  /\ UNCHANGED <<variant, hasThought, aborted, wire, pos, status, dec, thrown, loc,
                 summary, clock, page, recorder>>

\* The texts response.text() may resolve with.
ErrTexts == {<<>>, ErrBody}

Transport ==
  \/ FetchOk
  \/ \E code \in {Status500} : FetchBadStatus(code)
  \/ FetchReject
  \/ \E errText \in ErrTexts : TextResolve(errText)
  \/ TextReject
  \/ ReadReject
  \/ AbortWake
  \/ ReadEnd

Next ==
  \/ \E w \in DifyWires, th \in BOOLEAN : SendMessage(w, th)
  \/ \E w \in ImageWires : SendImage(w)
  \/ \E w \in ChatWires : GenerateSummary(w)
  \/ \E skill \in {"recognition", "doc"} : SendEarlyReturn(skill)
  \/ \E skill \in {"generation", "doc"} : SendTool(skill)
  \/ \E text \in ToolTexts : ToolSettle(text)
  \/ StopGenerating
  \/ Transport
  \/ \E k \in (0..MaxChunk) \cup {Len(wire) - pos} : ReadChunk(k)

Spec == Init /\ [][Next]_vars

(***************************************************************************)
(* The store operations of the page (useChatSession), which the user and   *)
(* the page may run while a call is streaming: every await of the call     *)
(* lets them in.                                                           *)
(***************************************************************************)

\* How many fetches (of messages, of the list) the page may have pending at a time.
MaxPending == 1

\* The clock value after which no new chat is opened.
MaxClock == 3

\* The size of the transport chunks of the streams under StoreSpec.
StoreChunk == 72

\* WireTwo is the text 'data: {"event":"message","answer":"a","conversation_id":"c1"}\n\ndata: {"event":"message","answer":"b","conversation_id":"c1"}'
WireTwo ==
  <<"d","a","t","a",":"," ","{","\"","e","v","e","n","t","\"",":","\"","m","e","s","s","a","g",
    "e","\"",",","\"","a","n","s","w","e","r","\"",":","\"","a","\"",",","\"","c","o","n","v",
    "e","r","s","a","t","i","o","n","_","i","d","\"",":","\"","c","1","\"","}","\n","\n","d",
    "a","t","a",":"," ","{","\"","e","v","e","n","t","\"",":","\"","m","e","s","s","a","g","e",
    "\"",",","\"","a","n","s","w","e","r","\"",":","\"","b","\"",",","\"","c","o","n","v","e",
    "r","s","a","t","i","o","n","_","i","d","\"",":","\"","c","1","\"","}">>

StoreWires == {WireTwo}

\* The list fetchDifyConversations returns: the server lists c1 once it has
\* begun to answer in it.
ServerList ==
  IF variant = "dify" /\ pos > 0
  THEN <<ServerConversation(ConvC1), ServerConversation(ConvC0)>>
  ELSE <<ServerConversation(ConvC0)>>

\* The ids of the listed conversations (the sidebar's chat items).
ListedIds(s) == {s.difyConversations[n].id : n \in 1..Len(s.difyConversations)}

StreamUnchanged ==
  UNCHANGED <<pc, variant, hasThought, aborted, wire, pos, status, dec, thrown,
              loc, summary, recorder>>

\* handleNewChat: createSession(); setDifySessionId(null)
HandleNewChat ==
  /\ clock < MaxClock
  /\ store' = SetDifySessionId(CreateSession(store, Null, clock), Null)
  /\ clock' = clock + 1
  /\ UNCHANGED page
  /\ StreamUnchanged

\* handleSwitchSession(conversationId), up to its await: clearSession();
\* setDifySessionId(conversationId); fetchConversationMessages(...)
SwitchStart(conversationId) ==
  /\ Len(page.switching) + page.loading < MaxPending
  /\ store' = SetDifySessionId(ClearSession(store), conversationId)
  /\ page' = [page EXCEPT !.switching = Append(@, conversationId)]
  /\ UNCHANGED clock
  /\ StreamUnchanged

\* handleSwitchSession after its await resolved: replaceMessagesFromDify
SwitchResolve ==
  /\ page.switching # <<>>
  /\ store' = ReplaceMessagesFromDify(store, ServerHistory, Head(page.switching), clock)
  /\ page' = [page EXCEPT !.switching = Tail(@)]
  /\ UNCHANGED clock
  /\ StreamUnchanged

\* handleSwitchSession after its await rejected: the catch block
SwitchFail ==
  /\ page.switching # <<>>
  /\ page' = [page EXCEPT !.switching = Tail(@)]
  /\ UNCHANGED <<store, clock>>
  /\ StreamUnchanged

\* loadConversations up to its await (called on mount, by the watcher of
\* isLoggedIn, and a second after onConversationCreated): nothing without a
\* user name.
LoadStart ==
  /\ page.loggedIn
  /\ Len(page.switching) + page.loading < MaxPending
  /\ page' = [page EXCEPT !.loading = @ + 1]
  /\ UNCHANGED <<store, clock>>
  /\ StreamUnchanged

\* loadConversations after its await resolved: chatStore.difyConversations = res.data
LoadResolve ==
  /\ page.loading > 0
  /\ store' = [store EXCEPT !.difyConversations = ServerList]
  /\ page' = [page EXCEPT !.loading = @ - 1]
  /\ UNCHANGED clock
  /\ StreamUnchanged

\* loadConversations after its await rejected
LoadFail ==
  /\ page.loading > 0
  /\ page' = [page EXCEPT !.loading = @ - 1]
  /\ UNCHANGED <<store, clock>>
  /\ StreamUnchanged

\* The user logs in: the watcher of isLoggedIn calls loadConversations().
Login ==
  /\ ~page.loggedIn
  /\ Len(page.switching) + page.loading < MaxPending
  /\ page' = [page EXCEPT !.loggedIn = TRUE, !.loading = @ + 1]
  /\ UNCHANGED <<store, clock>>
  /\ StreamUnchanged

\* The user logs out: the watcher of isLoggedIn calls clearAllConversations().
Logout ==
  /\ page.loggedIn
  /\ store' = ClearAllConversations(store)
  /\ page' = [page EXCEPT !.loggedIn = FALSE]
  /\ UNCHANGED clock
  /\ StreamUnchanged

StoreOps ==
  \/ HandleNewChat
  \/ \E conversationId \in ListedIds(store) : SwitchStart(conversationId)
  \/ SwitchResolve
  \/ SwitchFail
  \/ LoadStart
  \/ LoadResolve
  \/ LoadFail
  \/ Login
  \/ Logout

StoreNext ==
  \/ \E w \in StoreWires : SendMessage(w, FALSE)
  \/ \E k \in {StoreChunk, Len(wire) - pos} : ReadChunk(k)
  \/ FetchOk
  \/ ReadEnd
  \/ ReadReject
  \/ StoreOps

\* The streaming session with the page's store operations interleaved.
StoreSpec == Init /\ [][StoreNext]_vars

\* The streaming session whose transport eventually answers every await.
FairSpec == Spec /\ WF_vars(Next)

(***************************************************************************)
(* Several sendMessage sessions one after the other: handleSend starts the *)
(* next one once the previous call has returned and isSending is false.    *)
(***************************************************************************)

\* useHomeLogic.handleSend after a call of sendMessage returned: if
\* (chatStore.isSending) return; the locals of the call that returned are
\* gone, and chatStore.sendMessage is called next.
HandleSend ==
  /\ pc = "ended" /\ ~store.isSending
  /\ clock < MaxClock
  /\ pc' = "idle"
  /\ aborted' = FALSE
  /\ wire' = <<>>
  /\ pos' = 0
  /\ status' = Null
  /\ dec' = FreshDecoder(<<>>)
  /\ thrown' = NoError
  /\ loc' = NoLocals
  /\ UNCHANGED <<variant, hasThought, store, summary, clock, page, recorder>>

SeqNext ==
  \/ \E w \in StoreWires : SendMessage(w, FALSE)
  \/ HandleSend
  \/ StopGenerating
  \/ FetchOk
  \/ FetchReject
  \/ AbortWake
  \/ ReadEnd
  \/ \E k \in {StoreChunk, Len(wire) - pos} : ReadChunk(k)

\* Sessions of sendMessage in sequence.
SeqSpec == Init /\ [][SeqNext]_vars

(***************************************************************************)
(* The meeting recorder beside the chat.  The recorder's dialog opens over *)
(* the chat page whatever the chat is doing, and its streamChat call uses  *)
(* the same chatStore.abortController as the call of sendMessage.          *)
(***************************************************************************)

RecorderUnchanged ==
  UNCHANGED <<pc, variant, hasThought, aborted, wire, pos, status, dec, thrown,
              loc, clock, page>>

\* The summaries the recorder's call may have delivered when it ends.
SummaryTexts == {<<>>, UserText}

\* handleGenerateSummary (its button is disabled while isSummarizing):
\* isSummarizing = true; summaryText = ''; streamChat makes its controller,
\* stores it in chatStore.abortController and awaits fetch.
RecorderStart ==
  /\ recorder.pc = "idle" /\ ~summary.isSummarizing
  /\ summary' = [isSummarizing |-> TRUE, summaryText |-> <<>>]
  /\ store' = [store EXCEPT !.abortController = "recorder"]
  /\ recorder' = [recorder EXCEPT !.pc = "running"]
  /\ RecorderUnchanged

\* The recorder's call, not aborted, ends (onDone or onError, after the
\* summary text its onMessage calls left): isSummarizing = false; finally
\* { chatStore.abortController = null }.
RecorderEnd(text) ==
  /\ recorder.pc = "running" /\ ~recorder.aborted
  /\ summary' = [isSummarizing |-> FALSE, summaryText |-> text]
  /\ store' = Finally(store)
  /\ recorder' = [recorder EXCEPT !.pc = "ended"]
  /\ RecorderUnchanged

\* The recorder's call, aborted, leaves through the AbortError: no callback,
\* then finally.
RecorderAbortWake ==
  /\ recorder.pc = "running" /\ recorder.aborted
  /\ store' = Finally(store)
  /\ recorder' = [recorder EXCEPT !.pc = "ended"]
  /\ UNCHANGED summary
  /\ RecorderUnchanged

OwnerNext ==
  \/ \E w \in StoreWires : SendMessage(w, FALSE)
  \/ StopGenerating
  \/ FetchOk
  \/ ReadReject
  \/ AbortWake
  \/ RecorderStart
  \/ \E text \in SummaryTexts : RecorderEnd(text)
  \/ RecorderAbortWake
  \/ ReadEnd
  \/ \E k \in {StoreChunk, Len(wire) - pos} : ReadChunk(k)

\* The call of sendMessage with the meeting recorder's call beside it.
OwnerSpec == Init /\ [][OwnerNext]_vars

(***************************************************************************)
(* The transport that hands the whole response over in one chunk: the      *)
(* first reader.read() resolves with all of it, the next reports done.     *)
(***************************************************************************)

ChunkNext ==
  \/ \E w \in DifyWires, th \in BOOLEAN : SendMessage(w, th)
  \/ FetchOk
  \/ ReadEnd
  \/ (pos = 0 /\ ReadChunk(Len(wire)))

ChunkSpec == Init /\ [][ChunkNext]_vars

(***************************************************************************)
(* mockStreamChat: the simulated reply, one character every 50 ms.  Here   *)
(* variant is "mock", wire the reply's text, pos the loop index i,         *)
(* dec.fullText the local currentText, and pc = "timer" while the timeout  *)
(* is awaited.                                                             *)
(***************************************************************************)

\* responseText: the template literal around message (its wording put in
\* ASCII and cut short: a receipt quoting the message, a line in bold, a
\* list of two items).
MockResponse(message) ==
  <<"G", "o", "t", ":", " ", "\"">> \o message
    \o <<"\"", ".", "\n", "\n", "*", "*", "m", "o", "c", "k", "*", "*", "\n", "\n",
         "-", " ", "1", "\n", "-", " ", "2">>

\* mockStreamChat(message, onMessage, onDone) up to its first await: the
\* controller is made and stored, the loop entered (i = 0, not aborted).
MockStart ==
  /\ pc = "idle"
  /\ variant' = "mock"
  /\ wire' = MockResponse(UserText)
  /\ pos' = 0
  /\ dec' = FreshDecoder(<<>>)
  /\ store' = [store EXCEPT !.abortController = "controller"]
  /\ pc' = "timer"
  /\ UNCHANGED <<hasThought, aborted, status, thrown, loc, summary, clock, page, recorder>>

\* The timeout resolves: currentText += chars[i]; onMessage(currentText);
\* i++; then the loop's tests (i < chars.length, signal.aborted) either
\* await the next timeout or leave the loop: onDone() unless aborted,
\* chatStore.abortController = null, return.
MockTick ==
  /\ pc = "timer"
  /\ pos' = pos + 1
  /\ \E d \in {EmitMessage(dec, <<wire[pos + 1]>>, <<>>)} :
       IF pos + 1 < Len(wire) /\ ~aborted
       THEN /\ pc' = "timer"
            /\ dec' = d
            /\ UNCHANGED store
       ELSE /\ pc' = "ended"
            /\ dec' = IF aborted THEN d ELSE LoopExit(d)
            /\ store' = [store EXCEPT !.abortController = "null"]
  /\ UNCHANGED <<variant, hasThought, aborted, wire, status, thrown, loc, summary,
                 clock, page, recorder>>

MockNext ==
  \/ MockStart
  \/ MockTick
  \/ StopGenerating

\* A call of mockStreamChat, which the user may stop.
MockSpec == Init /\ [][MockNext]_vars

(***************************************************************************)
(* Properties.  The callbacks a call invoked are dec.calls, in order; the  *)
(* payloads its decoder handled are dec.frames.                            *)
(***************************************************************************)

\* The positions in dec.calls of the calls of one callback.
CallsNamed(cb) == {i \in 1..Len(dec.calls) : dec.calls[i].cb = cb}

\* The onMessage calls, in order.
MessageCalls == SelectSeq(dec.calls, LAMBDA c : c.cb = "onMessage")

\* The decoder of streamDifyChat fed text as one single chunk.
OneChunk(text, eos) == DifyChunk(FreshDecoder(<<>>), text, eos, hasThought)

\* Two decoder states that handled the same payloads and made the same calls.
SameDecoding(a, b) ==
  /\ a.frames = b.frames
  /\ a.calls = b.calls
  /\ a.fullText = b.fullText
  /\ a.fullThought = b.fullThought

\* pos is strictly inside an occurrence of the marker "data: " in the wire.
CutInsideMarker ==
  \E i \in 1..(Len(Marker) - 1) : IndexOf(wire, Marker, pos - i) = pos - i

\* p (what JSON.parse gave) is an object whose event is "error".
IsErrorEvent(p) == p.ok /\ p.val.t = "object" /\ Get(p.val, KeyEvent) = StrVal(EvError)

\* The positions in dec.frames of the error events.
ErrorFrames == {i \in 1..Len(dec.frames) : IsErrorEvent(JSONParse(dec.frames[i]))}

\* The message field of an error event.
ServerMessage(jsonStr) == ToStr(Get(JSONParse(jsonStr).val, KeyMessage))

\* The positions in dec.frames of the payloads JSON.parse rejects ([DONE],
\* which is never parsed, aside).
MalformedFrames ==
  {i \in 1..Len(dec.frames) : dec.frames[i] # DoneSentinel /\ ~JSONParse(dec.frames[i]).ok}

\* The answer a payload carries: that of a message or agent_message event,
\* nothing otherwise.
AnswerIn(p) ==
  IF p.ok /\ Get(p.val, KeyEvent) \in {StrVal(EvMessage), StrVal(EvAgentMessage)}
     /\ Truthy(Get(p.val, KeyAnswer))
  THEN ToStr(Get(p.val, KeyAnswer))
  ELSE <<>>

\* The answers of the well-formed message events among frames, in order.
RECURSIVE Answers(_)
Answers(frames) ==
  IF frames = <<>> THEN <<>>
  ELSE IF Head(frames) = DoneSentinel THEN <<>>
  ELSE (IF AnswerIn(JSONParse(Head(frames))) = <<>> THEN <<>>
        ELSE <<AnswerIn(JSONParse(Head(frames)))>>) \o Answers(Tail(frames))

\* The texts of msgs joined.
RECURSIVE Joined(_)
Joined(texts) == IF texts = <<>> THEN <<>> ELSE Head(texts) \o Joined(Tail(texts))

\* C1 (chunking invariance of streamDifyChat): however the text read so far
\* was cut into chunks, the payloads handled and the onMessage/onThought
\* calls made are those of the same text fed as one chunk; and a call that
\* returned normally made the calls of the whole text fed at once.
C1_ChunkingInvariance ==
  variant = "dify" =>
    /\ pc = "read" => SameDecoding(dec, OneChunk(SubSeq(wire, 1, pos), FALSE))
    /\ (pc = "ended" /\ thrown = NoError) =>
         SameDecoding(dec, LoopExit(OneChunk(wire, TRUE)))

\* A chunk ended inside the marker of the third frame after the first frame
\* was handled (its own end was cut from the second frame's marker).
C1_Witness ==
  /\ variant = "dify" /\ pc = "read" /\ wire = WireA
  /\ Len(dec.frames) = 1 /\ Len(dec.calls) = 1
  /\ CutInsideMarker

\* C2 (protocol error event), as the claim states it: once streamDifyChat
\* has handled a frame whose payload is an object with event "error", the
\* last call is onError carrying the server's message, and onDone was not
\* called.
C2_ErrorEventFails ==
  (variant = "dify" /\ ErrorFrames # {}) =>
    /\ dec.calls # <<>>
    /\ dec.calls[Len(dec.calls)].cb = "onError"
    /\ dec.calls[Len(dec.calls)].text = ServerMessage(dec.frames[MinOf(ErrorFrames)])
    /\ CallsNamed("onDone") = {}

\* What the code does with an error event: the call goes on to the frame
\* after it and ends with onDone, onError never called.
C2_Divergence ==
  /\ variant = "dify" /\ pc = "ended" /\ wire = WireErr
  /\ ErrorFrames # {} /\ MaxOf(ErrorFrames) < Len(dec.frames)
  /\ CallsNamed("onError") = {}
  /\ CallsNamed("onDone") = {Len(dec.calls)}
  /\ dec.calls[Len(dec.calls) - 1].cb = "onMessage"

\* C3 (terminal exclusivity of streamDifyChat): at most one of onDone and
\* onError is called, at most once, and no call follows it.
C3_TerminalExclusivity ==
  variant = "dify" =>
    /\ Cardinality(CallsNamed("onDone") \cup CallsNamed("onError")) <= 1
    /\ \A i \in CallsNamed("onDone") \cup CallsNamed("onError") : i = Len(dec.calls)

\* The call ended on [DONE] with a frame still behind it, after two messages.
C3_Witness ==
  /\ variant = "dify" /\ pc = "ended" /\ wire = WireA
  /\ Len(MessageCalls) = 2
  /\ CallsNamed("onDone") = {3}
  /\ dec.frames[Len(dec.frames)] = DoneSentinel

\* A streamDifyChat call that has returned; if no error reached its catch
\* block, onDone was called once, last, after the calls of the whole text.
C4_Completed ==
  /\ pc = "ended"
  /\ thrown = NoError =>
       /\ CallsNamed("onDone") = {Len(dec.calls)}
       /\ SubSeq(dec.calls, 1, Len(dec.calls) - 1) = OneChunk(wire, TRUE).calls

\* C4 (completion): a streamDifyChat call that reads its response returns,
\* and unless it failed or was cancelled it has called onDone exactly once,
\* after every onMessage/onThought, those of the frame flushed at the end
\* of the stream included.
C4_Completion == (variant = "dify" /\ pc = "read") ~> C4_Completed

\* The call completed at the end of the stream, the last frame (which no
\* marker follows) flushed there: its message, carrying c1, precedes onDone.
C4_Witness ==
  /\ variant = "dify" /\ pc = "ended" /\ thrown = NoError /\ wire = WireErr
  /\ pos = Len(wire)
  /\ Len(dec.calls) = 3
  /\ dec.calls[2].cid = ConvC1
  /\ dec.calls[3].cb = "onDone"

\* C5 (silent cancellation): from the moment the controller is aborted the
\* call invokes no callback any more.
C5_SilentCancellation == [][aborted => dec'.calls = dec.calls]_vars

\* The call was stopped after its first message with text left to read, and
\* returned through the AbortError.
C5_Witness ==
  /\ aborted /\ pc = "ended" /\ thrown = AbortError
  /\ variant = "dify" /\ wire = WireA
  /\ Len(dec.calls) = 1 /\ dec.calls[1].cb = "onMessage"
  /\ pos < Len(wire)

\* Some onMessage call carried a conversation id.
IdDelivered == \E i \in CallsNamed("onMessage") : dec.calls[i].cid # Null

\* C6 (single swap), as the claim states it: in a sendMessage session that
\* began without a conversation id, onConversationCreated is called and the
\* placeholder swapped at most once, and exactly once from the first event
\* that carries a conversation id on, whatever store operations interleave.
C6_SingleSwap ==
  (variant = "dify" /\ pc # "idle" /\ loc.initialConversationId = Null) =>
    /\ loc.created <= 1
    /\ loc.swaps <= 1
    /\ IdDelivered => (loc.created = 1 /\ loc.swaps = 1)

\* What the code does when handleNewChat runs between two events that carry
\* the id: onConversationCreated is called a second time.
C6_Divergence ==
  /\ variant = "dify" /\ loc.initialConversationId = Null
  /\ loc.created = 2 /\ loc.swaps = 1

\* C7 (continuing a conversation): a sendMessage session that began with a
\* conversation id has no placeholder, never calls
\* updateTempDifyConversation and never calls onConversationCreated,
\* whatever store operations interleave.
C7_ContinuingConversation ==
  (variant = "dify" /\ pc # "idle" /\ loc.initialConversationId # Null) =>
    /\ loc.tempConversationId = Null
    /\ loc.swapCalls = 0
    /\ loc.created = 0
    /\ \A n \in 1..Len(store.difyConversations) : ~store.difyConversations[n].is_temp

\* The session began in c0; difySessionId was cleared while it streamed and
\* a later event set it to c1.
C7_Witness ==
  /\ variant = "dify" /\ pc = "ended"
  /\ loc.initialConversationId = ConvC0
  /\ store.difySessionId = ConvC1
  /\ IdDelivered

\* C8 (monotonic accumulation, the three streaming functions): the text of
\* each onMessage call is the text of the one before it with this call's
\* addition appended, the first being built from the empty text; the
\* decoder's fullText is the text of the last call.
C8_MonotonicAccumulation ==
  /\ \A i \in 1..Len(MessageCalls) :
       /\ MessageCalls[i].text =
            (IF i = 1 THEN <<>> ELSE MessageCalls[i - 1].text) \o MessageCalls[i].delta
       /\ MessageCalls[i].delta # <<>>
  /\ MessageCalls # <<>> => dec.fullText = MessageCalls[Len(MessageCalls)].text

\* streamDifyChat delivered "Hel" and then "Hello".
C8_Witness ==
  /\ variant = "dify" /\ wire = WireA
  /\ Len(MessageCalls) = 2
  /\ MessageCalls[1].text = <<"H", "e", "l">>
  /\ MessageCalls[2].text = <<"H", "e", "l", "l", "o">>

ThoughtIn(p) ==
  IF p.ok /\ Get(p.val, KeyEvent) = StrVal(EvAgentThought) /\ Truthy(Get(p.val, KeyThought))
  THEN ToStr(Get(p.val, KeyThought))
  ELSE <<>>

\* The thoughts of the agent_thought events among frames, in order.
RECURSIVE Thoughts(_)
Thoughts(frames) ==
  IF frames = <<>> THEN <<>>
  ELSE IF Head(frames) = DoneSentinel THEN <<>>
  ELSE (IF ThoughtIn(JSONParse(Head(frames))) = <<>> THEN <<>>
        ELSE <<ThoughtIn(JSONParse(Head(frames)))>>) \o Thoughts(Tail(frames))

\* The onThought calls, in order.
ThoughtCalls == SelectSeq(dec.calls, LAMBDA c : c.cb = "onThought")

\* C11 (cumulative delivery of streamDifyChat): the text of the i-th
\* onMessage call is the concatenation of the answers of the first i
\* answer-carrying message/agent_message frames handled, and the text of the
\* i-th onThought call that of the thoughts of the first i agent_thought
\* frames handled (a caller that passed no onThought gets none).
C11_CumulativeDelivery ==
  variant = "dify" =>
    /\ Len(MessageCalls) <= Len(Answers(dec.frames))
    /\ \A i \in 1..Len(MessageCalls) :
         MessageCalls[i].text = Joined(SubSeq(Answers(dec.frames), 1, i))
    /\ Len(ThoughtCalls) <= Len(Thoughts(dec.frames))
    /\ \A i \in 1..Len(ThoughtCalls) :
         ThoughtCalls[i].text = Joined(SubSeq(Thoughts(dec.frames), 1, i))
    /\ ~hasThought => ThoughtCalls = <<>>

\* The second thought, which came after an answer and message_end, was
\* delivered as "tht2", and the answer between them as "ok".
C11_Witness ==
  /\ variant = "dify" /\ wire = WireThought /\ hasThought
  /\ Len(ThoughtCalls) = 2
  /\ ThoughtCalls[2].text = <<"t", "h", "t", "2">>
  /\ ThoughtCalls[2].delta = <<"t", "2">>
  /\ MessageCalls[1].text = <<"o", "k">>

\* The 0-based places of the marker "data: " in text.
MarkerPlaces(text) ==
  {i \in 0..(Len(text) - Len(Marker)) : SubSeq(text, i + 1, i + Len(Marker)) = Marker}

\* The payload of the last frame of text: what follows its last marker,
\* trimmed.
LastPayload(text) == Trim(SliceFrom(text, MaxOf(MarkerPlaces(text)) + Len(Marker)))

\* The call returned normally and no [DONE] was handled: the read loop was
\* left by the end of the stream.
EndedAtEndOfStream ==
  /\ variant = "dify" /\ pc = "ended" /\ thrown = NoError
  /\ \A i \in 1..Len(dec.frames) : dec.frames[i] # DoneSentinel

\* C12 (flush at the end of the stream): when streamDifyChat's read loop
\* was left by the end of the stream, every frame of the text was handled,
\* the last one (which no marker follows) included: its payload is the last
\* payload handled, the buffer is empty, and the message it carries was
\* delivered just before onDone, the last call.
C12_FlushAtEnd ==
  (EndedAtEndOfStream /\ MarkerPlaces(wire) # {}) =>
    /\ Len(dec.frames) = Cardinality(MarkerPlaces(wire))
    /\ dec.frames[Len(dec.frames)] = LastPayload(wire)
    /\ dec.buffer = <<>>
    /\ dec.calls[Len(dec.calls)].cb = "onDone"
    /\ AnswerIn(JSONParse(LastPayload(wire))) # <<>> =>
         /\ Len(dec.calls) >= 2
         /\ dec.calls[Len(dec.calls) - 1].cb = "onMessage"
         /\ dec.calls[Len(dec.calls) - 1].delta = AnswerIn(JSONParse(LastPayload(wire)))

\* The stream closed after the frame of "b" and a newline, no marker behind
\* it: "b" was delivered, then onDone.
C12_Witness ==
  /\ EndedAtEndOfStream /\ wire = WireBad
  /\ Len(dec.frames) = 3
  /\ dec.calls[2].cb = "onMessage" /\ dec.calls[2].delta = <<"b">>
  /\ dec.calls[3].cb = "onDone"

\* The positions in dec.frames of the payload [DONE].
DoneFrames == {i \in 1..Len(dec.frames) : dec.frames[i] = DoneSentinel}

\* C13 (termination sentinel; streamDifyChat, streamChat, streamImageChat):
\* once a frame whose payload is [DONE] was handled it is the last frame
\* handled, the call has returned (nothing more is read), every onMessage
\* and onThought came from a frame before it, and onDone, called once, is
\* the last call.
C13_TerminationSentinel ==
  DoneFrames # {} =>
    /\ DoneFrames = {Len(dec.frames)}
    /\ pc = "ended" /\ thrown = NoError
    /\ CallsNamed("onDone") = {Len(dec.calls)}
    /\ variant = "dify" =>
         /\ Len(MessageCalls) = Len(Answers(SubSeq(dec.frames, 1, Len(dec.frames) - 1)))
         /\ Len(ThoughtCalls) <= Len(Thoughts(SubSeq(dec.frames, 1, Len(dec.frames) - 1)))

\* The whole of WireA arrived before [DONE] was handled: the frame of "X"
\* behind [DONE] was in the buffer and made no call.
C13_Witness ==
  /\ variant = "dify" /\ wire = WireA /\ pc = "ended"
  /\ pos = Len(wire)
  /\ DoneFrames = {3}
  /\ Len(dec.calls) = 3
  /\ IndexOf(dec.buffer, <<"X">>, 0) # -1

\* The call of sendMessage awaits its fetch, the response text or a read.
Running == pc \in {"fetch", "text", "read"}

\* C14 (ownership of the cancellation token), as the claim states it: while
\* the call of sendMessage runs, chatStore.abortController is that call's
\* own controller; no other call replaces it or sets it to null.
C14_TokenOwnership == Running => store.abortController = "controller"

\* What the code does when a summary is generated while the chat streams:
\* the recorder's call took the slot and cleared it when it ended; the chat
\* still streams, isSending is true, and stopGenerating finds no controller.
C14_Divergence ==
  /\ pc = "read" /\ ~aborted /\ store.isSending
  /\ recorder.pc = "ended"
  /\ store.abortController = "null"

\* C15 (release on every exit path; streamDifyChat, streamChat,
\* streamImageChat): the step by which a streaming call returns - after
\* onDone, after onError, or silently after an abort - leaves
\* chatStore.abortController null.
C15_ReleaseOnExit ==
  [][(pc # "ended" /\ pc' = "ended") => store'.abortController = "null"]_vars

\* streamImageChat failed on a broken connection after it had delivered
\* text: onError was its last call and the controller is released.
C15_Witness ==
  /\ variant = "image" /\ pc = "ended" /\ thrown = NetworkError
  /\ Len(dec.calls) >= 2
  /\ dec.calls[Len(dec.calls)].cb = "onError"
  /\ store.abortController = "null"

\* after is before with the record at index given the id realId and
\* is_temp = false, nothing else changed.
SwappedInPlace(before, after, index, realId) ==
  /\ Len(after) = Len(before)
  /\ after[index] = [before[index] EXCEPT !.id = realId, !.is_temp = FALSE]
  /\ \A n \in 1..Len(before) : n # index => after[n] = before[n]

\* C16 (in-place swap): a call updateTempDifyConversation(tempId, realId)
\* that finds the placeholder changes in difyConversations only that
\* record's id (to realId) and is_temp (to false); the record keeps its
\* index, the list its length, every other record its place and content.
C16_InPlaceSwap ==
  [][loc'.swaps = loc.swaps + 1 =>
       /\ FindConversation(store, loc.tempConversationId) # 0
       /\ SwappedInPlace(store.difyConversations, store'.difyConversations,
                         FindConversation(store, loc.tempConversationId),
                         store'.difySessionId)]_vars

\* The placeholder stood before the conversation c0 of the loaded list and
\* was swapped for c1 where it stood.
C16_Witness ==
  /\ loc.swaps = 1
  /\ store.difyConversations =
       <<[id |-> ConvC1, name |-> "new", is_temp |-> FALSE], ServerConversation(ConvC0)>>

\* C17 (placeholder at send time): the step by which sendMessage starts a
\* Dify call with no conversation id leaves, before fetch is awaited, a
\* record with is_temp = true and an id no listed conversation has at the
\* head of difyConversations, the records that were there behind it in
\* their order; difySessionId stays empty and the request carries no
\* conversation_id.
C17_PlaceholderAtSend ==
  [][(pc = "idle" /\ pc' = "fetch" /\ variant' = "dify"
      /\ loc'.initialConversationId = Null) =>
       /\ loc'.tempConversationId # Null
       /\ loc'.tempConversationId \notin ListedIds(store)
       /\ store'.difyConversations =
            <<[id |-> loc'.tempConversationId, name |-> "new", is_temp |-> TRUE]>>
            \o store.difyConversations
       /\ store'.difySessionId = Null
       /\ loc'.conversation_id = Null]_vars

\* A new chat was opened on a page that lists c0, and a message sent: the
\* placeholder stands before c0 while fetch is awaited.
C17_Witness ==
  /\ variant = "dify" /\ pc = "fetch"
  /\ loc.initialConversationId = Null /\ loc.conversation_id = Null
  /\ Len(store.difyConversations) = 2
  /\ store.difyConversations[1].is_temp
  /\ store.difyConversations[1].id = loc.tempConversationId
  /\ store.difyConversations[2] = ServerConversation(ConvC0)
  /\ store.difySessionId = Null

\* C18 (marker without space), as the claim states it: streamDifyChat
\* decodes the frames of WireNoSpace, introduced by "data:" without a
\* space, as it decodes the same frames introduced by "data: ".
C18_MarkerWithoutSpace ==
  (variant = "dify" /\ pc = "ended" /\ thrown = NoError /\ wire = WireNoSpace) =>
    dec.calls = LoopExit(OneChunk(WireSpaced, TRUE)).calls

\* C18 as the code has it: streamDifyChat looks for "data: " only, so the
\* frames of a stream that uses "data:" without a space are not handled and
\* make no call; streamImageChat takes a line that starts with "data:" as
\* it takes the same line with "data: ".
C18_SpaceRequired ==
  /\ (variant = "dify" /\ wire = WireNoSpace) =>
       /\ dec.frames = <<>>
       /\ CallsNamed("onMessage") = {} /\ CallsNamed("onThought") = {}
  /\ (variant = "image" /\ pc = "ended" /\ thrown = NoError /\ wire = WireImage) =>
       dec.calls = LoopExit(ImageChunk(FreshDecoder(<<>>), WireImageSpaced, TRUE)).calls

\* The whole of WireNoSpace was read and the call completed with onDone
\* alone, while the same frames behind "data: " deliver "a" and "aa".
C18_Witness ==
  /\ variant = "dify" /\ pc = "ended" /\ wire = WireNoSpace /\ pos = Len(wire)
  /\ dec.calls = <<Call("onDone", <<>>, <<>>, <<>>)>>
  /\ Len(OneChunk(WireSpaced, TRUE).calls) = 2

\* The payloads of the "data: " lines among lines that come before the
\* [DONE] line, in order.
RECURSIVE LinePayloads(_)
LinePayloads(lines) ==
  IF lines = <<>> THEN <<>>
  ELSE IF ~StartsWith(Head(lines), Marker) THEN LinePayloads(Tail(lines))
  ELSE IF SliceFrom(Head(lines), Len(Marker)) = DoneSentinel THEN <<>>
  ELSE <<SliceFrom(Head(lines), Len(Marker))>> \o LinePayloads(Tail(lines))

\* Those payloads of the "data: " lines of text (the last line, which no
\* newline ends, included) that JSON.parse rejects.
RawPayloads(text) ==
  SelectSeq(LinePayloads(SplitLines(text)), LAMBDA payload : ~JSONParse(payload).ok)

\* Every payload of raws was the addition of an onMessage call, and there
\* are at least as many onMessage calls as payloads.
AllDelivered(raws) ==
  /\ \A i \in 1..Len(raws) :
       \E j \in CallsNamed("onMessage") : dec.calls[j].delta = raws[i]
  /\ Cardinality(CallsNamed("onMessage")) >= Len(raws)

\* A streamChat or streamImageChat call that completed.
PlainCompleted == variant \in {"chat", "image"} /\ pc = "ended" /\ thrown = NoError

\* C19 (the plain variant never drops text), as the claim states it: when
\* a streamChat or streamImageChat call has completed, every "data: " frame
\* of the stream whose payload is not parseable JSON was appended to the
\* answer and delivered by onMessage.
C19_PlainNeverDrops == PlainCompleted => AllDelivered(RawPayloads(wire))

\* What the code does with a last frame no newline ends: the call completed
\* with "data: tail" left in its buffer, never delivered.
C19_Divergence ==
  /\ PlainCompleted /\ variant = "chat" /\ wire = WireImage
  /\ dec.buffer = Marker \o <<"t", "a", "i", "l">>
  /\ \A j \in CallsNamed("onMessage") : dec.calls[j].delta # <<"t", "a", "i", "l">>
  /\ dec.calls[Len(dec.calls)].cb = "onDone"

\* p (what JSON.parse gave) is an object that has no event field.
HasNoEvent(p) == p.ok /\ p.val.t = "object" /\ Get(p.val, KeyEvent) = Undefined

\* What the plain variant extracts from p:
\* data.choices?.[0]?.delta?.content || data.content || ''
PlainExtract(p) == ToStr(OrElse(OrElse(ChoiceContent(p.val), Get(p.val, KeyContent)), StrVal(<<>>)))

\* The positions in dec.frames of the objects without an event field from
\* which the plain variant extracts content.
NoEventFrames ==
  {i \in 1..Len(dec.frames) :
     /\ dec.frames[i] # DoneSentinel
     /\ HasNoEvent(JSONParse(dec.frames[i]))
     /\ PlainExtract(JSONParse(dec.frames[i])) # <<>>}

\* The payloads among frames that are objects with an event field.
EventFrames(frames) ==
  SelectSeq(frames, LAMBDA f : f = DoneSentinel \/ ~HasNoEvent(JSONParse(f)))

\* C20 (variant fallback), as the claim states it: the content the plain
\* variant extracts from a frame without an event field, once streamDifyChat
\* handled the frame, was delivered as the addition of an onMessage call.
C20_VariantFallback ==
  variant = "dify" =>
    \A i \in NoEventFrames :
      \E j \in CallsNamed("onMessage") :
        dec.calls[j].delta = PlainExtract(JSONParse(dec.frames[i]))

\* C20 as the code has it: streamDifyChat ignores a frame whose payload is
\* an object without an event field - no callback, the answer unchanged;
\* the onMessage calls and the answer are those of the frames that have one.
C20_NoFallback ==
  variant = "dify" =>
    /\ [i \in 1..Len(MessageCalls) |-> MessageCalls[i].delta]
         = Answers(EventFrames(dec.frames))
    /\ dec.fullText = Joined(Answers(EventFrames(dec.frames)))
    /\ \A i \in NoEventFrames :
         \A j \in CallsNamed("onMessage") :
           dec.calls[j].delta # PlainExtract(JSONParse(dec.frames[i]))

\* The frames {"content":"x"} and the choices frame of "y" were handled
\* and made no call; the message "z" behind them was delivered alone.
C20_Witness ==
  /\ variant = "dify" /\ pc = "ended" /\ wire = WireNoEvent
  /\ NoEventFrames = {1, 2}
  /\ Len(dec.calls) = 2
  /\ dec.calls[1].cb = "onMessage" /\ dec.calls[1].text = <<"z">>
  /\ dec.calls[2].cb = "onDone"

\* p (what JSON.parse gave) is a message or agent_message event that carries
\* a non-empty conversation_id.
CarriesId(p) ==
  /\ p.ok /\ p.val.t = "object"
  /\ Get(p.val, KeyEvent) \in {StrVal(EvMessage), StrVal(EvAgentMessage)}
  /\ Truthy(Get(p.val, KeyConversationId))

\* The positions in dec.frames of the events that carry a conversation id.
IdFrames ==
  {i \in 1..Len(dec.frames) :
     dec.frames[i] # DoneSentinel /\ CarriesId(JSONParse(dec.frames[i]))}

\* The conversation_id of the event jsonStr.
IdOf(jsonStr) == ToStr(Get(JSONParse(jsonStr).val, KeyConversationId))

\* C21 (known id from the first id-carrying event), as the claim states it:
\* in a sendMessage session that began without a conversation id, once
\* streamDifyChat has handled a message/agent_message event that carries a
\* non-empty conversation_id, difySessionId is the id of the first such
\* event and the placeholder was swapped for it - whether or not the event's
\* answer is empty.
C21_IdFromFirstEvent ==
  (variant = "dify" /\ loc.initialConversationId = Null /\ IdFrames # {}) =>
    /\ store.difySessionId = IdOf(dec.frames[MinOf(IdFrames)])
    /\ loc.swaps = 1
    /\ \A n \in 1..Len(store.difyConversations) : ~store.difyConversations[n].is_temp

\* What the code does when the id comes with an empty answer: the call
\* completed, the event that carried c1 made no onMessage call, so
\* difySessionId is still empty and the placeholder still in the list.
C21_Divergence ==
  /\ variant = "dify" /\ pc = "ended" /\ thrown = NoError /\ wire = WireEmptyAnswer
  /\ loc.initialConversationId = Null
  /\ IdFrames = {1} /\ IdOf(dec.frames[1]) = ConvC1
  /\ store.difySessionId = Null
  /\ loc.swaps = 0
  /\ store.difyConversations[1].is_temp
  /\ Len(MessageCalls) = 1 /\ MessageCalls[1].text = <<"a">>

\* The last line of text: what follows its last newline.
LastLine(text) == SplitLines(text)[Len(SplitLines(text))]

\* C22 (flush at the end of the stream, line-splitting decoders), as the
\* claim states it: when a streamChat or streamImageChat call completed at
\* the end of the stream and the text ended in a "data: " line that no
\* newline ends, that line was handled as the last frame and its delta
\* delivered by the last onMessage before onDone.
C22_LineFlush ==
  (PlainCompleted /\ DoneFrames = {} /\ StartsWith(LastLine(wire), Marker)
   /\ Len(LastLine(wire)) > Len(Marker)) =>
    /\ dec.frames # <<>>
    /\ dec.frames[Len(dec.frames)] = SliceFrom(LastLine(wire), Len(Marker))
    /\ dec.buffer = <<>>
    /\ ~JSONParse(SliceFrom(LastLine(wire), Len(Marker))).ok =>
         /\ Len(dec.calls) >= 2
         /\ dec.calls[Len(dec.calls)].cb = "onDone"
         /\ dec.calls[Len(dec.calls) - 1].cb = "onMessage"
         /\ dec.calls[Len(dec.calls) - 1].delta = SliceFrom(LastLine(wire), Len(Marker))

\* What streamImageChat does at the end of the stream: the three lines a
\* newline ended were handled, the answer is "abcde", onDone was called, and
\* the line "data: tail" is still in the buffer.
C22_Divergence ==
  /\ PlainCompleted /\ variant = "image" /\ wire = WireImage /\ pos = Len(wire)
  /\ Len(dec.frames) = 3
  /\ dec.fullText = <<"a", "b", "c", "d", "e">>
  /\ LastLine(wire) = Marker \o <<"t", "a", "i", "l">>
  /\ dec.buffer = LastLine(wire)
  /\ dec.calls[Len(dec.calls)].cb = "onDone"

\* The members of the set of numbers S, in increasing order.
InOrder(S) ==
  [n \in 1..Cardinality(S) |-> CHOOSE x \in S : Cardinality({y \in S : y < x}) = n - 1]

\* The frames of text as its markers delimit them, places being the places
\* of the markers in order: each runs from its marker to the next one, the
\* last to the end of the text; trimmed.
MarkedLines(text, places) ==
  [n \in 1..Len(places) |->
     Trim(Slice(text, places[n], IF n < Len(places) THEN places[n + 1] ELSE Len(text)))]

\* frames up to its first [DONE], that one included.
RECURSIVE CutAtDone(_)
CutAtDone(frames) ==
  IF frames = <<>> THEN <<>>
  ELSE IF Head(frames) = DoneSentinel THEN <<DoneSentinel>>
  ELSE <<Head(frames)>> \o CutAtDone(Tail(frames))

\* The payloads of the first count frames among lines (a frame whose line
\* is the bare "data:" has none), up to the first [DONE].
PayloadsOf(lines, count) ==
  CutAtDone([n \in 1..Len(SelectSeq(SubSeq(lines, 1, count), LAMBDA l : StartsWith(l, Marker)))
               |-> SliceFrom(SelectSeq(SubSeq(lines, 1, count),
                                       LAMBDA l : StartsWith(l, Marker))[n], Len(Marker))])

\* The payloads of all the frames of text, in the order of their markers.
AllFrames(text) ==
  PayloadsOf(MarkedLines(text, InOrder(MarkerPlaces(text))), Cardinality(MarkerPlaces(text)))

\* The payloads of the frames of text that a marker follows.
FollowedFrames(text) ==
  PayloadsOf(MarkedLines(text, InOrder(MarkerPlaces(text))),
             IF MarkerPlaces(text) = {} THEN 0 ELSE Cardinality(MarkerPlaces(text)) - 1)

\* a is the beginning of b.
IsPrefix(a, b) == Len(a) <= Len(b) /\ a = SubSeq(b, 1, Len(a))

\* C23 (frame emission rule of streamDifyChat): the frames handled so far
\* are the first frames of the stream in the order of their markers, each
\* with its whole payload; and while the call still reads, only frames whose
\* following marker was received were handled - the last frame waits for the
\* end of the stream.
C23_FrameEmission ==
  variant = "dify" =>
    /\ IsPrefix(dec.frames, AllFrames(wire))
    /\ pc = "read" => IsPrefix(dec.frames, FollowedFrames(SubSeq(wire, 1, pos)))

\* The second frame of WireA was received whole, and "data:" of the third
\* frame's marker behind it, yet only the first frame was handled.
C23_Witness ==
  /\ variant = "dify" /\ pc = "read" /\ wire = WireA
  /\ Cardinality(MarkerPlaces(wire)) >= 3
  /\ pos = InOrder(MarkerPlaces(wire))[3] + Len(MarkerNoSpace)
  /\ Len(dec.frames) = 1
  /\ IndexOf(dec.buffer, <<"l", "o">>, 0) # -1

\* The additions of the onMessage calls among calls.
MessageDeltas(calls) ==
  [i \in 1..Len(SelectSeq(calls, LAMBDA c : c.cb = "onMessage")) |->
     SelectSeq(calls, LAMBDA c : c.cb = "onMessage")[i].delta]

\* C24 (several frames in one chunk): the pass of streamDifyChat's read
\* loop that received a chunk leaves handled, in order, every frame of the
\* text received so far that a marker follows (up to [DONE]) - however many
\* of them the chunk brought - with the onMessage calls of their answers in
\* that order.
C24_AllFramesOfChunk ==
  [][(variant = "dify" /\ pc = "read" /\ pos' > pos) =>
       /\ dec'.frames = FollowedFrames(SubSeq(wire, 1, pos'))
       /\ MessageDeltas(dec'.calls) = Answers(dec'.frames)]_vars

\* The whole of WireThought came in the one chunk of the first read: its
\* three frames that a marker follows were handled during that pass, the
\* thought and the answer delivered, the fourth frame waiting.
C24_Witness ==
  /\ variant = "dify" /\ pc = "read" /\ wire = WireThought /\ hasThought
  /\ pos = Len(wire)
  /\ Len(dec.frames) = 3
  /\ Len(dec.calls) = 2
  /\ dec.calls[1].cb = "onThought" /\ dec.calls[2].cb = "onMessage"

\* text is white space only (or empty).
WsOnly(text) == \A i \in 1..Len(text) : IsWs(text[i])

\* The characters a+1..b of the wire are white space between frames: white
\* space alone lies between them and a newline that ended a line.
BetweenFrames(a, b) ==
  /\ a < b /\ b <= Len(wire)
  /\ WsOnly(SubSeq(wire, a + 1, b))
  /\ \E j \in 1..a : wire[j] = "\n" /\ WsOnly(SubSeq(wire, j, a))

\* d is the decoder state e but for its buffer: no callback was made, no
\* frame handled, the answer is unchanged.
NothingDecoded(d, e) ==
  /\ d.calls = e.calls /\ d.frames = e.frames
  /\ d.fullText = e.fullText /\ d.fullThought = e.fullThought

\* The calls of a whole response text decoded by the call's own decoder.
CallsOf(text) == LoopExit(Decode(variant, FreshDecoder(<<>>), text, TRUE, hasThought)).calls

\* C25 (empty and white-space chunks), as the claim states it: in each of
\* the three decoders an empty chunk, and a chunk of white space between
\* frames, makes no callback and leaves the answer as it is; and the white
\* space changes no frame: the calls of the stream with two spaces between
\* its frames (WireGap) are those of the stream without them.
C25_WhitespaceIgnored ==
  /\ pc = "read" =>
       /\ NothingDecoded(Decode(variant, dec, <<>>, FALSE, hasThought), dec)
       /\ \A k \in 1..MaxChunk :
            BetweenFrames(pos, pos + k) =>
              NothingDecoded(Decode(variant, dec, SubSeq(wire, pos + 1, pos + k),
                                    FALSE, hasThought), dec)
  /\ (pc = "ended" /\ thrown = NoError /\ wire = WireGap) => dec.calls = CallsOf(WireNoGap)

\* What streamChat does with the two spaces before the second frame: its
\* line does not start with "data: " and is skipped; the call completed with
\* the answer "a", while the same frames without the spaces give "ab".
C25_Divergence ==
  /\ variant = "chat" /\ pc = "ended" /\ thrown = NoError /\ wire = WireGap
  /\ Len(dec.frames) = 1
  /\ dec.fullText = <<"a">>
  /\ Len(CallsOf(WireNoGap)) = 3
  /\ CallsOf(WireNoGap)[2].text = <<"a", "b">>

\* The positions in dec.frames of the message_end events.
EndFrames ==
  {i \in 1..Len(dec.frames) :
     /\ dec.frames[i] # DoneSentinel
     /\ JSONParse(dec.frames[i]).ok
     /\ Get(JSONParse(dec.frames[i]).val, KeyEvent) = StrVal(EvMessageEnd)}

\* C26 (message_end is not terminal): once streamDifyChat handled a
\* message_end frame, the calls made are still only those of the answers and
\* thoughts handled (message_end made none), the frames behind it are
\* handled and delivered like any others, and onDone is called only when
\* every frame of the stream up to [DONE] or the end of the stream was
\* handled.
C26_MessageEndNotTerminal ==
  (variant = "dify" /\ EndFrames # {}) =>
    /\ Len(MessageCalls) = Len(Answers(dec.frames))
    /\ hasThought => Len(ThoughtCalls) = Len(Thoughts(dec.frames))
    /\ Len(dec.calls) = Len(MessageCalls) + Len(ThoughtCalls)
                          + Cardinality(CallsNamed("onDone") \cup CallsNamed("onError"))
    /\ CallsNamed("onDone") # {} =>
         /\ dec.frames = AllFrames(wire)
         /\ DoneFrames # {} \/ pos = Len(wire)
    /\ (pc = "ended" /\ thrown = NoError) => CallsNamed("onDone") = {Len(dec.calls)}

\* The message_end of WireEmptyAnswer was handled second; the call went on,
\* delivered the answer "a" of the frame behind it and completed at the end
\* of the stream.
C26_Witness ==
  /\ variant = "dify" /\ pc = "ended" /\ thrown = NoError /\ wire = WireEmptyAnswer
  /\ EndFrames = {2}
  /\ Len(dec.frames) = 4
  /\ Len(dec.calls) = 2
  /\ dec.calls[1].cb = "onMessage" /\ dec.calls[1].text = <<"a">>
  /\ dec.calls[2].cb = "onDone"

\* The positions in dec.frames of the message and agent_message events with
\* a non-empty answer.
AnswerFrames ==
  {i \in 1..Len(dec.frames) :
     dec.frames[i] # DoneSentinel /\ AnswerIn(JSONParse(dec.frames[i])) # <<>>}

\* The positions in dec.frames of the agent_thought events with a non-empty
\* thought.
ThoughtFrames ==
  {i \in 1..Len(dec.frames) :
     dec.frames[i] # DoneSentinel /\ ThoughtIn(JSONParse(dec.frames[i])) # <<>>}

\* C27 (callbacks only on non-empty deltas; streamDifyChat): the onMessage
\* calls are, one for one and in order, the non-empty answers of the
\* message/agent_message frames handled - a frame whose answer is empty or
\* missing made none - and the onThought calls of a caller that passed
\* onThought are, one for one, the non-empty thoughts of the agent_thought
\* frames handled.
C27_CallbacksOnNonEmpty ==
  variant = "dify" =>
    /\ MessageDeltas(dec.calls) = Answers(dec.frames)
    /\ Len(MessageCalls) = Cardinality(AnswerFrames)
    /\ \A i \in 1..Len(MessageCalls) : MessageCalls[i].delta # <<>>
    /\ [i \in 1..Len(ThoughtCalls) |-> ThoughtCalls[i].delta]
         = IF hasThought THEN Thoughts(dec.frames) ELSE <<>>
    /\ hasThought => Len(ThoughtCalls) = Cardinality(ThoughtFrames)

\* Three frames of WireEmptyAnswer were handled - a message with the answer
\* "", message_end, an agent_message without answer - and no call was made.
C27_Witness ==
  /\ variant = "dify" /\ pc = "read" /\ wire = WireEmptyAnswer
  /\ Len(dec.frames) = 3
  /\ AnswerFrames = {}
  /\ dec.calls = <<>>

\* The delta of a payload that parsed as the JSON value v, in the order the
\* claim gives: choices[0].delta.content when present and non-empty,
\* otherwise content, otherwise nothing.
OrderedContent(v) ==
  IF Truthy(ChoiceContent(v)) THEN ToStr(ChoiceContent(v))
  ELSE IF Truthy(Get(v, KeyContent)) THEN ToStr(Get(v, KeyContent))
  ELSE <<>>

\* The deltas of the payloads frames (up to [DONE]) in the plain variant as
\* the claim gives them: a payload JSON.parse accepts gives its ordered
\* content, if any; a payload it rejects is itself the delta.
RECURSIVE PlainDeltas(_)
PlainDeltas(frames) ==
  IF frames = <<>> \/ Head(frames) = DoneSentinel THEN <<>>
  ELSE (IF ~JSONParse(Head(frames)).ok THEN <<Head(frames)>>
        ELSE IF JSONParse(Head(frames)).val.t = "null"
                \/ OrderedContent(JSONParse(Head(frames)).val) = <<>> THEN <<>>
        ELSE <<OrderedContent(JSONParse(Head(frames)).val)>>) \o PlainDeltas(Tail(frames))

\* C28 (plain-variant extraction order), as the claim states it: the
\* onMessage calls of streamChat are, in order, the deltas of the payloads
\* handled - for a payload that parses as JSON its choices[0].delta.content,
\* else its content, and no call at all when it carries neither.
C28_PlainExtraction ==
  variant = "chat" => MessageDeltas(dec.calls) = PlainDeltas(dec.frames)

\* What streamChat does with the payload null: it parses as JSON, reading
\* null.choices throws, and the catch block appends the payload as text:
\* after "A" and "C" (the empty choices content gave way to content, the
\* object without either field made no call) the answer ends in "null".
C28_Divergence ==
  /\ variant = "chat" /\ pc = "ended" /\ thrown = NoError /\ wire = WireOrder
  /\ Len(dec.frames) = 4
  /\ JSONParse(dec.frames[4]).ok /\ JSONParse(dec.frames[4]).val.t = "null"
  /\ MessageDeltas(dec.calls) = <<<<"A">>, <<"C">>, <<"n", "u", "l", "l">>>>
  /\ dec.fullText = <<"A", "C", "n", "u", "l", "l">>

\* C29 (cancellation of mockStreamChat), as the claim states it: a step of
\* a mockStreamChat call whose controller was aborted while it waited
\* between characters makes no callback - no further onMessage, no onDone -
\* and the step by which it returns leaves chatStore.abortController null.
C29_MockCancellation ==
  [][(variant = "mock" /\ pc = "timer" /\ aborted) =>
       /\ dec'.calls = dec.calls
       /\ pc' = "ended" => store'.abortController = "null"]_vars

\* What mockStreamChat does when stopped during its first wait: the timeout
\* still resolves, the first character is appended and onMessage called
\* with it; only then is the signal tested and the call returns, without
\* onDone.
C29_Divergence ==
  /\ variant = "mock" /\ pc = "ended" /\ aborted
  /\ pos = 1
  /\ dec.calls = <<Call("onMessage", <<"G">>, <<>>, <<"G">>)>>
  /\ store.abortController = "null"

\* The "data: " lines among lines.
DataLines(lines) == SelectSeq(lines, LAMBDA l : StartsWith(l, Marker))

\* text is a stream of "data: " lines, each ended by a newline, with nothing
\* but empty lines between them, and no payload contains the marker.
WellFormed(text) ==
  /\ text # <<>> /\ text[Len(text)] = "\n"
  /\ \A n \in 1..Len(SplitLines(text)) :
       \/ SplitLines(text)[n] = <<>>
       \/ /\ StartsWith(SplitLines(text)[n], Marker)
          /\ IndexOf(SplitLines(text)[n], Marker, 1) = -1

\* No payload of the "data: " lines of text is empty or ends in white space.
TidyPayloads(text) ==
  \A n \in 1..Len(DataLines(SplitLines(text))) :
    /\ Len(DataLines(SplitLines(text))[n]) > Len(Marker)
    /\ ~IsWs(DataLines(SplitLines(text))[n][Len(DataLines(SplitLines(text))[n])])

\* The payloads the call's decoder handled, under the chunking it met, are
\* those the other decoder handles when it reads the same text: streamChat
\* against streamDifyChat and the reverse.
SamePayloads ==
  /\ variant = "chat" => dec.frames = DifyChunk(FreshDecoder(<<>>), wire, TRUE, FALSE).frames
  /\ variant = "dify" => dec.frames = ChatChunk(FreshDecoder(<<>>), wire, TRUE).frames

\* C30 (agreement of the two decoders), as the claim states it: on every
\* well-formed stream streamChat and streamDifyChat, when they completed,
\* handled the same payloads in the same order, up to the same [DONE].
C30_DecodersAgree ==
  (pc = "ended" /\ thrown = NoError /\ variant \in {"chat", "dify"} /\ WellFormed(wire)) =>
    SamePayloads

\* C30 as the code has it: the two decoders agree on the well-formed streams
\* none of whose payloads is empty or ends in white space (streamDifyChat
\* trims the frame, streamChat takes the line as it is).
C30_DecodersAgreeOnTidy ==
  (pc = "ended" /\ thrown = NoError /\ variant \in {"chat", "dify"}
   /\ WellFormed(wire) /\ TidyPayloads(wire)) =>
    SamePayloads

\* streamDifyChat met [DONE] in WireA, two frames still behind it, and
\* stopped with the three payloads streamChat takes from the same text.
C30_Witness ==
  /\ variant = "dify" /\ pc = "ended" /\ thrown = NoError /\ wire = WireA
  /\ WellFormed(wire) /\ TidyPayloads(wire)
  /\ DoneFrames = {3}
  /\ dec.frames = ChatChunk(FreshDecoder(<<>>), wire, TRUE).frames

\* C31 (session-owned state), as the claim states it: while a sendMessage
\* session streams, the known conversation id its onMessage tests before
\* the swap (chatStore.difySessionId) is changed by that session's own
\* steps only; a step of the page (handleNewChat, handleSwitchSession,
\* clearAllConversations), which leaves the call where it is, leaves the
\* id as it was.
C31_SessionOwnedId ==
  [][(variant = "dify" /\ Running /\ UNCHANGED <<pc, pos, dec>>) =>
       store'.difySessionId = store.difySessionId]_vars

\* What the code does: the session set the id from its first event, then
\* handleNewChat or clearAllConversations set the store's difySessionId back
\* to null while the call still reads, so the next event that carries an id
\* passes the test !difySessionId.value again.
C31_Divergence ==
  /\ variant = "dify" /\ pc = "read" /\ pos < Len(wire)
  /\ loc.initialConversationId = Null /\ loc.created = 1
  /\ IdDelivered
  /\ store.difySessionId = Null

\* C32 (the busy flag is released): every chatStore.sendMessage call that
\* set isSending to true is followed by isSending = false, whether the
\* stream completed, failed or was cancelled by stopGenerating, and on each
\* return of the image-generation, image-recognition and document-tool
\* branches, provided every awaited request settles.
C32_BusyReleased == store.isSending ~> ~store.isSending

\* A sendMessage call of every kind has returned, and the flag is down.
C32_Ended ==
  (pc = "ended" /\ variant \in {"dify", "image", "generation", "recognition", "doc"}) =>
    ~store.isSending

\* The Dify stream was cancelled while it read, and the call has returned
\* with the flag released.
C32_Witness ==
  /\ variant = "dify" /\ pc = "ended" /\ thrown = AbortError
  /\ pos > 0
  /\ ~store.isSending

\* C33 (the busy flag implies single flight), as the claim states it:
\* whenever chatStore.isSending is false, no Dify streaming session of
\* sendMessage can still call onMessage; a session that awaits its fetch or
\* a read and was not aborted has isSending = true, under every
\* interleaving of handleSend, stopGenerating and the recorder's summary.
C33_SingleFlight ==
  (variant = "dify" /\ Running /\ ~aborted) => store.isSending

\* What the code does when the user stops while a summary is generated
\* beside the chat: stopGenerating aborted the recorder's controller and
\* set isSending to false; the chat's call was not aborted and still has
\* events to deliver, and handleSend would start a second session.
C33_Divergence ==
  /\ variant = "dify" /\ pc = "read" /\ ~aborted
  /\ pos < Len(wire)
  /\ recorder.aborted
  /\ ~store.isSending

\* C34 (the summary's busy flag is released), as the claim states it: a
\* streamChat session started by handleGenerateSummary, which set
\* isSummarizing to true, has set it back to false once it has ended,
\* whether the stream completed, failed or was aborted through the shared
\* chatStore.abortController.
C34_SummaryReleased == recorder.pc = "ended" => ~summary.isSummarizing

\* What the code does on abort: stopGenerating aborted the recorder's
\* controller, streamChat left through its catch block without a callback,
\* and isSummarizing is still true after the call returned.
C34_Divergence ==
  /\ recorder.pc = "ended" /\ recorder.aborted
  /\ store.abortController = "null"
  /\ summary.isSummarizing

\* The texts the session has put into its own assistant message so far: the
\* empty placeholder and the cumulative texts of its onMessage calls.
OwnTexts == {<<>>} \cup {dec.calls[i].text : i \in CallsNamed("onMessage")}

\* C35 (deltas reach the session's own message only), as the claim states
\* it: a step in which a sendMessage session calls onMessage changes the
\* content of no message but the session's own placeholder, whose content
\* was the empty text or an earlier cumulative text of the stream; no
\* message of another local session or of loaded history is overwritten,
\* whatever handleSwitchSession, handleNewChat, clearSession or
\* replaceMessagesFromDify did in between.
C35_OwnMessageOnly ==
  [][(variant = "dify" /\ pc = "read" /\ dec'.calls # dec.calls /\ thrown' = NoError) =>
       \A n \in 1..Len(store.sessions) :
         \A k \in 1..Len(store.sessions[n].messages) :
           store'.sessions[n].messages[k].content # store.sessions[n].messages[k].content
             => store.sessions[n].messages[k].content \in OwnTexts]_vars

\* What the code does after handleSwitchSession loaded a conversation's
\* history while the session streamed: updateLastMessage took the last
\* message of the current session, which is the history's assistant
\* message, and replaced its text by the stream's.
C35_Divergence ==
  /\ variant = "dify" /\ loc.initialConversationId = ConvC0
  /\ Len(Messages(store)) = Len(HistoryMessages(ServerHistory))
  /\ Messages(store)[Len(Messages(store))].role = "assistant"
  /\ Messages(store)[Len(Messages(store))].content \in OwnTexts \ {<<>>}

\* C36 (no stale placeholder after a successful new conversation), as the
\* claim states it: when a sendMessage session that created a placeholder
\* has ended with onDone after at least one event carried a non-empty
\* conversation_id, no record of difyConversations has is_temp = true and
\* difySessionId is the conversation_id of the first event that carried one.
C36_NoStalePlaceholder ==
  (/\ variant = "dify" /\ pc = "ended" /\ thrown = NoError
   /\ loc.tempConversationId # Null
   /\ IdFrames # {}) =>
    /\ \A n \in 1..Len(store.difyConversations) : ~store.difyConversations[n].is_temp
    /\ store.difySessionId = IdOf(dec.frames[MinOf(IdFrames)])

\* What the code does when the only event that carries the id has an empty
\* answer: the session ended with onDone, its placeholder is still in the
\* list under its temporary id, and difySessionId is still null.
C36_Divergence ==
  /\ variant = "dify" /\ pc = "ended" /\ CallsNamed("onDone") # {}
  /\ loc.tempConversationId # Null
  /\ IdFrames # {}
  /\ FindConversation(store, loc.tempConversationId) # 0
  /\ store.difyConversations[FindConversation(store, loc.tempConversationId)].is_temp
  /\ store.difySessionId = Null

\* The places of the placeholder records of the conversation list.
TempRecords ==
  {n \in 1..Len(store.difyConversations) : store.difyConversations[n].is_temp}

\* C37 (at most one placeholder), as the claim states it: after any
\* sequence of sendMessage sessions, completed, failed or cancelled,
\* difyConversations has at most one record with is_temp = true, and no two
\* of its records have the same id.
C37_AtMostOnePlaceholder ==
  pc \in {"idle", "ended"} =>
    /\ Cardinality(TempRecords) <= 1
    /\ \A m, n \in 1..Len(store.difyConversations) :
         store.difyConversations[m].id = store.difyConversations[n].id => m = n

\* What the code does after two sessions that failed before an id arrived:
\* each added its placeholder and none was removed.
C37_Divergence ==
  /\ pc = "ended" /\ thrown = NetworkError
  /\ store.difySessionId = Null
  /\ Cardinality(TempRecords) = 2
  /\ store.difyConversations[1].id = TempId(2)
  /\ store.difyConversations[2].id = TempId(1)

\* C38 (logout is not undone by a stream in flight), as the claim states
\* it: once clearAllConversations ran while a sendMessage session streams
\* (no local session is left and difySessionId is null), a later event of
\* that session writes no conversation state back: difySessionId stays
\* null and difyConversations stays as it is.
C38_LogoutNotUndone ==
  [][(/\ variant = "dify" /\ pc = "read"
      /\ ~page.loggedIn /\ store.sessions = <<>> /\ store.difySessionId = Null
      /\ dec'.calls # dec.calls) =>
       /\ store'.difySessionId = Null
       /\ store'.difyConversations = store.difyConversations]_vars

\* What the code does: the user logged out while the call read, and the
\* next event that carried an id set difySessionId again.
C38_Divergence ==
  /\ variant = "dify" /\ ~page.loggedIn
  /\ store.sessions = <<>> /\ store.difyConversations = <<>>
  /\ store.difySessionId = ConvC1

\* The answers of the message frames the server sent, one frame a line,
\* up to the [DONE] frame.
SentAnswers == Answers(LinePayloads(SplitLines(wire)))

\* C39 (payload integrity against marker text), as the claim states it:
\* streamDifyChat delivers the answer of every message frame intact,
\* whatever the answer contains, the substring 'data: ' included: when the
\* call has completed, each answer the server sent was the delta of an
\* onMessage call.
C39_PayloadIntegrity ==
  (variant = "dify" /\ pc = "ended" /\ thrown = NoError) =>
    \A i \in 1..Len(SentAnswers) :
      \E j \in CallsNamed("onMessage") : dec.calls[j].delta = SentAnswers[i]

\* What the code does with the answer 'see data: x': the frame was cut in
\* two at the marker inside the answer, neither half parsed, and the only
\* delta delivered is that of the second frame.
C39_Divergence ==
  /\ variant = "dify" /\ pc = "ended" /\ thrown = NoError /\ wire = WireInner
  /\ Len(SentAnswers) = 2
  /\ Len(dec.frames) = 3
  /\ ~JSONParse(dec.frames[1]).ok /\ ~JSONParse(dec.frames[2]).ok
  /\ MessageDeltas(dec.calls) = <<<<"!">>>>

\* The ids updateTempDifyConversation may be called with: those of the
\* placeholders made so far and those of the server's conversations.
SwapIds == {TempId(now) : now \in 0..clock} \cup {ConvC0, ConvC1}

\* C40 (channel independence and no-op swap): in streamDifyChat the
\* cumulative answer is made of the answers of the message frames alone
\* and the cumulative thought of the thoughts of the agent_thought frames
\* alone; without an onThought callback the agent_thought frames leave
\* both texts alone and raise no error; and updateTempDifyConversation
\* called with an id that is not in difyConversations leaves the store,
\* its list and difySessionId included, as it was.
C40_ChannelsAndNoOpSwap ==
  /\ variant = "dify" =>
       /\ dec.fullText = Joined(Answers(dec.frames))
       /\ dec.fullThought = IF hasThought THEN Joined(Thoughts(dec.frames)) ELSE <<>>
       /\ ~hasThought => ThoughtCalls = <<>>
       /\ thrown = NoError => CallsNamed("onError") = {}
  /\ \A tempId \in SwapIds, realId \in {ConvC0, ConvC1} :
       FindConversation(store, tempId) = 0 =>
         UpdateTempDifyConversation(store, tempId, realId) = store

\* A stream of both kinds of frames was read to its end without an
\* onThought callback: the thoughts were ignored, the answer is that of the
\* message frame, the call completed; the list holds the session's
\* placeholder and no record with the id 'c1' or an older temporary id,
\* so a swap called with one of these finds nothing.
C40_Witness ==
  /\ variant = "dify" /\ ~hasThought /\ wire = WireThought
  /\ pc = "ended" /\ thrown = NoError
  /\ Cardinality(ThoughtFrames) = 2
  /\ dec.fullText = <<"o", "k">> /\ dec.fullThought = <<>>
  /\ FindConversation(store, loc.tempConversationId) = 1
  /\ FindConversation(store, TempId(0)) = 0 /\ FindConversation(store, ConvC1) = 0
====
